---- MODULE Spec2Model ----
(***************************************************************************)
(* A model of the nbt crate (crates/nbt/src/lib.rs): the arena of nodes,   *)
(* the sorted compound index, recursive removal, the reference layer and   *)
(* the binary codec.  Strings are sequences of bytes (0..255); handles are *)
(* the arena's 0-based usize indices.  After it, models of the launcher's  *)
(* update installer and update check (crates/backend/src/update.rs), of    *)
(* Serial and AtomicSerialProvider (crates/bridge/src/serial.rs) and of    *)
(* run_modal_action (crates/pandora_launcher/src/main.rs).                 *)
(***************************************************************************)
EXTENDS Integers, Sequences, FiniteSets, TLC

VARIABLES
    root_name, root_index, nodes, \* the fields of the NBT under operation
    call,       \* the last call made: its name, arguments and result
    compound,   \* the entry vector of one NBTCompound operated directly
    inserted,   \* per key, the handle of the last insert not removed since
    views,      \* the live mutable views into the tree
    other,      \* a clone of the tree, taken earlier
    task,       \* the backend task under way (update.rs): its place and locals
    disk,       \* the files and folders the update installer works on
    modal_action, \* the ModalAction shared by the backend task and its watcher
    frontend,   \* the messages sent to the frontend, in order
    replace,    \* the locals of a call of replace_os_str
    serial,     \* the AtomicSerialProvider's counter and the threads calling it
    poll        \* the locals of run_modal_action, the watcher of a ModalAction

treeVars == <<root_name, root_index, nodes>>
compoundVars == <<compound, inserted>>
\* The state of the launcher's crates (backend, bridge, pandora_launcher).
launcherVars == <<task, disk, modal_action, frontend, replace, serial, poll>>
\* The state of the nbt crate.
nbtVars == <<root_name, root_index, nodes, call, compound, inserted, views, other>>
vars == <<nbtVars, launcherVars>>

\* What an operation on the tree's nodes leaves alone.
nodesFrame == <<root_name, root_index, compound, inserted, views, other, launcherVars>>

\* What a call that only returns a result leaves alone.
callFrame == <<root_name, root_index, nodes, compound, inserted, views, other, launcherVars>>

(***************************************************************************)
(* Bounds of the model.                                                    *)
(***************************************************************************)
\* The most occupied arena slots (the root included) a tree of Spec grows to.
MaxNodes == 3

(***************************************************************************)
(* Wire tags (lib.rs 15-27).                                               *)
(***************************************************************************)
TAG_END_ID == 0
TAG_BYTE_ID == 1
TAG_SHORT_ID == 2
TAG_INT_ID == 3
TAG_LONG_ID == 4
TAG_FLOAT_ID == 5
TAG_DOUBLE_ID == 6
TAG_BYTE_ARRAY_ID == 7
TAG_STRING_ID == 8
TAG_LIST_ID == 9
TAG_COMPOUND_ID == 10
TAG_INT_ARRAY_ID == 11
\* The LongArray tag one too high.
TAG_LONG_ARRAY_ID_OffByOne == TAG_INT_ARRAY_ID + 2

TAG_LONG_ARRAY_ID == 12

(***************************************************************************)
(* Byte strings.  Rust compares str values lexicographically by byte.      *)
(***************************************************************************)
RECURSIVE StrLessFrom(_, _, _)
StrLessFrom(a, b, i) ==
    IF i > Len(b) THEN FALSE
    ELSE IF i > Len(a) THEN TRUE
    ELSE IF a[i] < b[i] THEN TRUE
    ELSE IF a[i] > b[i] THEN FALSE
    ELSE StrLessFrom(a, b, i + 1)

StrLess(a, b) == StrLessFrom(a, b, 1)

\* The ordering of two strings turned round.
StrCmp_Reversed(a, b) ==
    IF a = b THEN "Equal" ELSE IF StrLess(a, b) THEN "Greater" ELSE "Less"

\* Ordering of two strings: "Less", "Equal" or "Greater".
StrCmp(a, b) ==
    IF a = b THEN "Equal" ELSE IF StrLess(a, b) THEN "Less" ELSE "Greater"

(***************************************************************************)
(* NBTNode (lib.rs 265-283).  A Long or Double payload is the pair of its  *)
(* two big-endian 32-bit words, a Float payload its 32 bits, each word a   *)
(* signed 32-bit integer.                                                  *)
(***************************************************************************)
NodeByte(v) == [kind |-> "Byte", value |-> v]
NodeShort(v) == [kind |-> "Short", value |-> v]
NodeInt(v) == [kind |-> "Int", value |-> v]
NodeLong(v) == [kind |-> "Long", value |-> v]
NodeFloat(v) == [kind |-> "Float", value |-> v]
NodeDouble(v) == [kind |-> "Double", value |-> v]
NodeByteArray(v) == [kind |-> "ByteArray", value |-> v]
NodeString(v) == [kind |-> "String", value |-> v]
NodeList(t, c) == [kind |-> "List", type_id |-> t, children |-> c]
NodeCompound(e) == [kind |-> "Compound", entries |-> e]
NodeIntArray(v) == [kind |-> "IntArray", value |-> v]
NodeLongArray(v) == [kind |-> "LongArray", value |-> v]

\* get_type with the Short arm giving the Byte tag.
get_type_ShortAsByte(node) ==
    CASE node.kind = "Byte" -> TAG_BYTE_ID
      [] node.kind = "Short" -> TAG_BYTE_ID
      [] node.kind = "Int" -> TAG_INT_ID
      [] node.kind = "Long" -> TAG_LONG_ID
      [] node.kind = "Float" -> TAG_FLOAT_ID
      [] node.kind = "Double" -> TAG_DOUBLE_ID
      [] node.kind = "ByteArray" -> TAG_BYTE_ARRAY_ID
      [] node.kind = "String" -> TAG_STRING_ID
      [] node.kind = "List" -> TAG_LIST_ID
      [] node.kind = "Compound" -> TAG_COMPOUND_ID
      [] node.kind = "IntArray" -> TAG_INT_ARRAY_ID
      [] node.kind = "LongArray" -> TAG_LONG_ARRAY_ID

\* get_type with the LongArray arm giving the IntArray tag.
get_type_LongArrayAsIntArray(node) ==
    CASE node.kind = "Byte" -> TAG_BYTE_ID
      [] node.kind = "Short" -> TAG_SHORT_ID
      [] node.kind = "Int" -> TAG_INT_ID
      [] node.kind = "Long" -> TAG_LONG_ID
      [] node.kind = "Float" -> TAG_FLOAT_ID
      [] node.kind = "Double" -> TAG_DOUBLE_ID
      [] node.kind = "ByteArray" -> TAG_BYTE_ARRAY_ID
      [] node.kind = "String" -> TAG_STRING_ID
      [] node.kind = "List" -> TAG_LIST_ID
      [] node.kind = "Compound" -> TAG_COMPOUND_ID
      [] node.kind = "IntArray" -> TAG_INT_ARRAY_ID
      [] node.kind = "LongArray" -> TAG_INT_ARRAY_ID

get_type(node) ==
    CASE node.kind = "Byte" -> TAG_BYTE_ID
      [] node.kind = "Short" -> TAG_SHORT_ID
      [] node.kind = "Int" -> TAG_INT_ID
      [] node.kind = "Long" -> TAG_LONG_ID
      [] node.kind = "Float" -> TAG_FLOAT_ID
      [] node.kind = "Double" -> TAG_DOUBLE_ID
      [] node.kind = "ByteArray" -> TAG_BYTE_ARRAY_ID
      [] node.kind = "String" -> TAG_STRING_ID
      [] node.kind = "List" -> TAG_LIST_ID
      [] node.kind = "Compound" -> TAG_COMPOUND_ID
      [] node.kind = "IntArray" -> TAG_INT_ARRAY_ID
      [] node.kind = "LongArray" -> TAG_LONG_ARRAY_ID

(***************************************************************************)
(* NBTCompound (lib.rs 307-349): a vector of (name, handle) pairs, here a  *)
(* sequence of <<name, handle>>.                                           *)
(***************************************************************************)
Found(i) == [ok |-> TRUE, index |-> i]
NotFound(i) == [ok |-> FALSE, index |-> i]

\* slice::binary_search_by_key over the entries' names: the halving loop of
\* the standard library on the 0-based range left..right-1.
RECURSIVE BinarySearchLoop(_, _, _, _)
BinarySearchLoop(entries, key, left, right) ==
    IF left >= right THEN NotFound(left)
    ELSE LET mid == left + ((right - left) \div 2)
             cmp == StrCmp(entries[mid + 1][1], key)
         IN  IF cmp = "Less" THEN BinarySearchLoop(entries, key, mid + 1, right)
             ELSE IF cmp = "Greater" THEN BinarySearchLoop(entries, key, left, mid)
             ELSE Found(mid)

NBTCompound_binary_search(entries, key) == BinarySearchLoop(entries, key, 0, Len(entries))

None == [some |-> FALSE]
Some(v) == [some |-> TRUE, value |-> v]

\* Vec::insert putting the element one place further on.
VecInsert_After(s, index, e) ==
    IF index < Len(s)
    THEN SubSeq(s, 1, index + 1) \o <<e>> \o SubSeq(s, index + 2, Len(s))
    ELSE Append(s, e)

\* Vec::insert(index, e) and Vec::remove(index), 0-based.
VecInsert(s, index, e) ==
    SubSeq(s, 1, index) \o <<e>> \o SubSeq(s, index + 1, Len(s))

VecRemove(s, index) ==
    SubSeq(s, 1, index) \o SubSeq(s, index + 2, Len(s))

NBTCompound_find(entries, key) ==
    LET r == NBTCompound_binary_search(entries, key)
    IN  IF r.ok THEN Some(entries[r.index + 1][2]) ELSE None

\* NBTCompound::remove giving the handle of the key and leaving its entry.
NBTCompound_remove_KeepEntry(entries, key) ==
    LET r == NBTCompound_binary_search(entries, key)
    IN  IF r.ok
        THEN [entries |-> entries, result |-> Some(entries[r.index + 1][2])]
        ELSE [entries |-> entries, result |-> None]

\* NBTCompound::remove(key): the entries after the call and its result.
NBTCompound_remove(entries, key) ==
    LET r == NBTCompound_binary_search(entries, key)
    IN  IF r.ok
        THEN [entries |-> VecRemove(entries, r.index),
              result |-> Some(entries[r.index + 1][2])]
        ELSE [entries |-> entries, result |-> None]

\* NBTCompound::insert putting a new key at the front of the vector.
NBTCompound_insert_AtFront(entries, key, value) ==
    LET r == NBTCompound_binary_search(entries, key)
    IN  IF r.ok
        THEN [entries EXCEPT ![r.index + 1] = <<key, value>>]
        ELSE VecInsert(entries, 0, <<key, value>>)

\* NBTCompound::insert leaving the handle of a key it finds as it was.
NBTCompound_insert_KeepOld(entries, key, value) ==
    LET r == NBTCompound_binary_search(entries, key)
    IN  IF r.ok THEN entries ELSE VecInsert(entries, r.index, <<key, value>>)

\* NBTCompound::insert pushing a new key at the end of the vector.
NBTCompound_insert_Push(entries, key, value) ==
    LET r == NBTCompound_binary_search(entries, key)
    IN  IF r.ok
        THEN [entries EXCEPT ![r.index + 1] = <<key, value>>]
        ELSE Append(entries, <<key, value>>)

\* NBTCompound::insert adding a second entry for a key already held.
NBTCompound_insert_Duplicate(entries, key, value) ==
    LET r == NBTCompound_binary_search(entries, key)
    IN  VecInsert(entries, r.index, <<key, value>>)

\* The entries after NBTCompound::insert(key, value).
NBTCompound_insert(entries, key, value) ==
    LET r == NBTCompound_binary_search(entries, key)
    IN  IF r.ok
        THEN [entries EXCEPT ![r.index + 1] = <<key, value>>]
        ELSE VecInsert(entries, r.index, <<key, value>>)

(***************************************************************************)
(* The arena: slab::Slab<NBTNode> (lib.rs 33).  A slot is a node or a      *)
(* vacant slot holding the next free key; `next` is the head of the free   *)
(* list, `len` the number of occupied slots.                               *)
(***************************************************************************)
Vacant(n) == [kind |-> "Vacant", next |-> n]

SlabNew == [entries |-> <<>>, len |-> 0, next |-> 0]

SlabContains(s, key) ==
    /\ key >= 0
    /\ key < Len(s.entries)
    /\ s.entries[key + 1].kind # "Vacant"

SlabGet(s, key) == s.entries[key + 1]

SlabKeys(s) == {k \in 0..(Len(s.entries) - 1) : SlabContains(s, k)}

\* The key Slab::insert stores the next node under.
SlabVacantKey(s) == s.next

\* Slab::insert storing the node under the count of occupied slots.
SlabInsert_AtLen(s, node) ==
    LET key == s.len
    IN  IF key = Len(s.entries)
        THEN [entries |-> Append(s.entries, node),
              len |-> s.len + 1,
              next |-> key + 1]
        ELSE [entries |-> [s.entries EXCEPT ![key + 1] = node],
              len |-> s.len + 1,
              next |-> s.next]

SlabInsert(s, node) ==
    LET key == s.next
    IN  IF key = Len(s.entries)
        THEN [entries |-> Append(s.entries, node),
              len |-> s.len + 1,
              next |-> key + 1]
        ELSE [entries |-> [s.entries EXCEPT ![key + 1] = node],
              len |-> s.len + 1,
              next |-> s.entries[key + 1].next]

\* Slab::remove of an occupied key.
SlabRemove(s, key) ==
    [entries |-> [s.entries EXCEPT ![key + 1] = Vacant(s.next)],
     len |-> s.len - 1,
     next |-> key]

SlabSet(s, key, node) == [s EXCEPT !.entries[key + 1] = node]

(***************************************************************************)
(* NBT (lib.rs 29-34, 152-263).                                            *)
(***************************************************************************)
NBT(name, root, slab) == [root_name |-> name, root_index |-> root, nodes |-> slab]

\* new_named leaving the root name empty.
new_named_Unnamed(name) ==
    LET empty == SlabNew
    IN  NBT(<<>>, SlabVacantKey(empty), SlabInsert(empty, NodeCompound(<<>>)))

new_named(name) ==
    LET empty == SlabNew
    IN  NBT(name, SlabVacantKey(empty), SlabInsert(empty, NodeCompound(<<>>)))

\* The handles a node holds: a list's children, a compound's entries.
ChildSeq(node) ==
    IF node.kind = "List" THEN node.children
    ELSE IF node.kind = "Compound"
         THEN [i \in 1..Len(node.entries) |-> node.entries[i][2]]
         ELSE <<>>

\* remove_node: the arena after the call, and whether the call panicked
\* (the root check, or Slab::remove of a key that is not occupied).
RECURSIVE remove_node(_, _)
RECURSIVE RemoveChildren(_, _, _)
\* remove_node with the List arm alone: a compound's children stay.
remove_node_ListArmOnly(slab, idx) ==
    IF idx = 0 THEN [nodes |-> slab, panic |-> TRUE]
    ELSE IF ~SlabContains(slab, idx) THEN [nodes |-> slab, panic |-> TRUE]
    ELSE RemoveChildren(SlabRemove(slab, idx),
                        IF SlabGet(slab, idx).kind = "List"
                        THEN SlabGet(slab, idx).children ELSE <<>>, 1)

\* remove_node without the check of the root handle.
remove_node_NoRootCheck(slab, idx) ==
    IF ~SlabContains(slab, idx) THEN [nodes |-> slab, panic |-> TRUE]
    ELSE RemoveChildren(SlabRemove(slab, idx), ChildSeq(SlabGet(slab, idx)), 1)

remove_node(slab, idx) ==
    IF idx = 0 THEN [nodes |-> slab, panic |-> TRUE]
    ELSE IF ~SlabContains(slab, idx) THEN [nodes |-> slab, panic |-> TRUE]
    ELSE RemoveChildren(SlabRemove(slab, idx), ChildSeq(SlabGet(slab, idx)), 1)

RemoveChildren(slab, children, i) ==
    IF i > Len(children) THEN [nodes |-> slab, panic |-> FALSE]
    ELSE LET r == remove_node(slab, children[i])
         IN  IF r.panic THEN r ELSE RemoveChildren(r.nodes, children, i + 1)

\* The handles of the subtree below idx (idx included): what a view on idx
\* can navigate to.
RECURSIVE Subtree(_, _)
RECURSIVE SubtreeOfSeq(_, _, _)
Subtree(slab, idx) ==
    IF ~SlabContains(slab, idx) THEN {}
    ELSE {idx} \cup SubtreeOfSeq(slab, ChildSeq(SlabGet(slab, idx)), 1)

SubtreeOfSeq(slab, children, i) ==
    IF i > Len(children) THEN {}
    ELSE Subtree(slab, children[i]) \cup SubtreeOfSeq(slab, children, i + 1)

KindHandles(slab, root, kind) ==
    {h \in Subtree(slab, root) : SlabGet(slab, h).kind = kind}

(***************************************************************************)
(* The mutable reference layer (CompoundRefMut, ListRefMut): the one       *)
(* underlying operation of each typed insert, and removal by key or index. *)
(***************************************************************************)
\* CompoundRefMut::insert_node(key, node): the node goes into the arena and
\* its handle into the compound under key.
CompoundRefMut_insert_node(slab, node_idx, key, node) ==
    LET new_idx == SlabVacantKey(slab)
        stored == SlabInsert(slab, node)
        self == SlabGet(stored, node_idx)
    IN  SlabSet(stored, node_idx,
                NodeCompound(NBTCompound_insert(self.entries, key, new_idx)))

\* ListRefMut::insert_node(node): the node is appended to the list.
ListRefMut_insert_node(slab, node_idx, node) ==
    LET new_idx == SlabVacantKey(slab)
        stored == SlabInsert(slab, node)
        self == SlabGet(stored, node_idx)
    IN  SlabSet(stored, node_idx,
                NodeList(self.type_id, Append(self.children, new_idx)))

\* CompoundRefMut::remove(key): the entry leaves the compound and its node
\* is removed from the arena with remove_node.
CompoundRefMut_remove(slab, node_idx, key) ==
    LET self == SlabGet(slab, node_idx)
        removed == NBTCompound_remove(self.entries, key)
        unlinked == SlabSet(slab, node_idx, NodeCompound(removed.entries))
    IN  IF removed.result.some THEN remove_node(unlinked, removed.result.value)
        ELSE [nodes |-> slab, panic |-> FALSE]

\* ListRefMut::remove(index): the child leaves the list and is removed from
\* the arena with remove_node.
ListRefMut_remove(slab, node_idx, index) ==
    LET self == SlabGet(slab, node_idx)
        unlinked == SlabSet(slab, node_idx,
                            NodeList(self.type_id, VecRemove(self.children, index)))
    IN  remove_node(unlinked, self.children[index + 1])

(***************************************************************************)
(* The binary codec (crate modules encode and decode), big-endian.  The    *)
(* encoder gives each byte with its role in the format: "tag" (a type tag  *)
(* or the end tag), "etag" (a list's element tag), "len" (the top byte of  *)
(* a signed 32-bit count), "str" (a byte of a string or name), "data".     *)
(***************************************************************************)
Tagged(bytes, role) == [i \in 1..Len(bytes) |-> <<bytes[i], role>>]

Untagged(abytes) == [i \in 1..Len(abytes) |-> abytes[i][1]]

BE8(v) == <<v % 256>>

BE16(v) == <<(v \div 256) % 256, v % 256>>

BE32(v) == <<(v \div 16777216) % 256, (v \div 65536) % 256, (v \div 256) % 256, v % 256>>

BE64(v) == BE32(v[1]) \o BE32(v[2])

RECURSIVE Flatten(_, _)
Flatten(seqs, i) == IF i > Len(seqs) THEN <<>> ELSE seqs[i] \o Flatten(seqs, i + 1)

\* A string: its length as an unsigned 16-bit count, then its bytes.
EncodeString(str) == Tagged(BE16(Len(str)), "data") \o Tagged(str, "str")

\* A signed 32-bit count.
EncodeCount(n) == <<<<BE32(n)[1], "len">>>> \o Tagged(SubSeq(BE32(n), 2, 4), "data")

RECURSIVE EncodeValue(_, _)
EncodeValue(slab, idx) ==
    LET node == SlabGet(slab, idx)
    IN  CASE node.kind = "Byte" -> Tagged(BE8(node.value), "data")
          [] node.kind = "Short" -> Tagged(BE16(node.value), "data")
          [] node.kind \in {"Int", "Float"} -> Tagged(BE32(node.value), "data")
          [] node.kind \in {"Long", "Double"} -> Tagged(BE64(node.value), "data")
          [] node.kind = "ByteArray" ->
                EncodeCount(Len(node.value))
                \o Tagged(Flatten([i \in 1..Len(node.value) |-> BE8(node.value[i])], 1), "data")
          [] node.kind = "String" -> EncodeString(node.value)
          [] node.kind = "List" ->
                <<<<node.type_id, "etag">>>>
                \o EncodeCount(Len(node.children))
                \o Flatten([i \in 1..Len(node.children) |->
                               EncodeValue(slab, node.children[i])], 1)
          [] node.kind = "Compound" ->
                Flatten([i \in 1..Len(node.entries) |->
                            <<<<get_type(SlabGet(slab, node.entries[i][2])), "tag">>>>
                            \o EncodeString(node.entries[i][1])
                            \o EncodeValue(slab, node.entries[i][2])], 1)
                \o <<<<TAG_END_ID, "tag">>>>
          [] node.kind = "IntArray" ->
                EncodeCount(Len(node.value))
                \o Tagged(Flatten([i \in 1..Len(node.value) |-> BE32(node.value[i])], 1), "data")
          [] node.kind = "LongArray" ->
                EncodeCount(Len(node.value))
                \o Tagged(Flatten([i \in 1..Len(node.value) |-> BE64(node.value[i])], 1), "data")

\* encode(&NBT): the root's tag, the root name, the root's value.
EncodeRoles(nbt) ==
    <<<<get_type(SlabGet(nbt.nodes, nbt.root_index)), "tag">>>>
    \o EncodeString(nbt.root_name)
    \o EncodeValue(nbt.nodes, nbt.root_index)

Encode(nbt) == Untagged(EncodeRoles(nbt))

\* Decoding of fixed-width values at 1-based position pos.
S8(b) == IF b >= 128 THEN b - 256 ELSE b

ReadI16(bytes, pos) == S8(bytes[pos]) * 256 + bytes[pos + 1]

ReadU16(bytes, pos) == bytes[pos] * 256 + bytes[pos + 1]

ReadI32(bytes, pos) ==
    S8(bytes[pos]) * 16777216 + bytes[pos + 1] * 65536 + bytes[pos + 2] * 256 + bytes[pos + 3]

ReadI64(bytes, pos) == <<ReadI32(bytes, pos), ReadI32(bytes, pos + 4)>>

\* Whether n more bytes follow position pos.
Avail(bytes, pos, n) == n <= Len(bytes) - pos + 1

\* str::from_utf8 accepts the bytes from position i on.
Cont(b) == b \in 128..191

RECURSIVE Utf8Valid(_, _)
Utf8Valid(s, i) ==
    IF i > Len(s) THEN TRUE
    ELSE LET b == s[i]
         IN  IF b < 128 THEN Utf8Valid(s, i + 1)
             ELSE IF b \in 194..223
                  THEN /\ i + 1 <= Len(s)
                       /\ Cont(s[i + 1])
                       /\ Utf8Valid(s, i + 2)
             ELSE IF b \in 224..239
                  THEN /\ i + 2 <= Len(s)
                       /\ IF b = 224 THEN s[i + 1] \in 160..191
                          ELSE IF b = 237 THEN s[i + 1] \in 128..159
                          ELSE Cont(s[i + 1])
                       /\ Cont(s[i + 2])
                       /\ Utf8Valid(s, i + 3)
             ELSE IF b \in 240..244
                  THEN /\ i + 3 <= Len(s)
                       /\ IF b = 240 THEN s[i + 1] \in 144..191
                          ELSE IF b = 244 THEN s[i + 1] \in 128..143
                          ELSE Cont(s[i + 1])
                       /\ Cont(s[i + 2])
                       /\ Cont(s[i + 3])
                       /\ Utf8Valid(s, i + 4)
             ELSE FALSE

\* The decoder's steps give: err ("None" or the error kind), pos (the next
\* position, or the position of the error), nodes (the arena so far) and,
\* for a value, idx (its handle) or, for a string, str.
DecErr(kind, pos, slab) == [err |-> kind, pos |-> pos, nodes |-> slab]

DecOk(pos, slab, idx) == [err |-> "None", pos |-> pos, nodes |-> slab, idx |-> idx]

DecodeString(bytes, pos, slab) ==
    IF ~Avail(bytes, pos, 2) THEN DecErr("Truncated", pos, slab)
    ELSE LET n == ReadU16(bytes, pos)
             str == SubSeq(bytes, pos + 2, pos + 1 + n)
         IN  IF ~Avail(bytes, pos + 2, n) THEN DecErr("Truncated", pos + 2, slab)
             ELSE IF ~Utf8Valid(str, 1) THEN DecErr("InvalidUtf8", pos + 2, slab)
             ELSE [err |-> "None", pos |-> pos + 2 + n, nodes |-> slab, str |-> str]

\* A scalar of width bytes stored as node.
DecodeFixed(bytes, pos, slab, width, node) ==
    IF ~Avail(bytes, pos, width) THEN DecErr("Truncated", pos, slab)
    ELSE DecOk(pos + width, SlabInsert(slab, node), SlabVacantKey(slab))

\* An array: a signed 32-bit length, then that many elements of width bytes.
DecodeArray(bytes, pos, slab, width, kind) ==
    IF ~Avail(bytes, pos, 4) THEN DecErr("Truncated", pos, slab)
    ELSE LET n == ReadI32(bytes, pos)
             at(i) == pos + 4 + (i - 1) * width
             value == [i \in 1..n |->
                          IF width = 1 THEN S8(bytes[at(i)])
                          ELSE IF width = 4 THEN ReadI32(bytes, at(i))
                          ELSE ReadI64(bytes, at(i))]
         IN  IF n < 0 THEN DecErr("InvalidLength", pos, slab)
             ELSE IF n > (Len(bytes) - pos - 3) \div width
                  THEN DecErr("Truncated", pos + 4, slab)
             ELSE DecOk(pos + 4 + n * width,
                        SlabInsert(slab, [kind |-> kind, value |-> value]),
                        SlabVacantKey(slab))

ValueTags == TAG_BYTE_ID..TAG_LONG_ARRAY_ID

RECURSIVE DecodeValue(_, _, _, _)
RECURSIVE DecodeListItems(_, _, _, _, _, _)
RECURSIVE DecodeCompoundBody(_, _, _, _)
\* The value of type tag at pos, stored in the arena.
DecodeValue(bytes, pos, tag, slab) ==
    CASE tag = TAG_BYTE_ID ->
            DecodeFixed(bytes, pos, slab, 1,
                        IF Avail(bytes, pos, 1) THEN NodeByte(S8(bytes[pos])) ELSE None)
      [] tag = TAG_SHORT_ID ->
            DecodeFixed(bytes, pos, slab, 2,
                        IF Avail(bytes, pos, 2) THEN NodeShort(ReadI16(bytes, pos)) ELSE None)
      [] tag = TAG_INT_ID ->
            DecodeFixed(bytes, pos, slab, 4,
                        IF Avail(bytes, pos, 4) THEN NodeInt(ReadI32(bytes, pos)) ELSE None)
      [] tag = TAG_LONG_ID ->
            DecodeFixed(bytes, pos, slab, 8,
                        IF Avail(bytes, pos, 8) THEN NodeLong(ReadI64(bytes, pos)) ELSE None)
      [] tag = TAG_FLOAT_ID ->
            DecodeFixed(bytes, pos, slab, 4,
                        IF Avail(bytes, pos, 4) THEN NodeFloat(ReadI32(bytes, pos)) ELSE None)
      [] tag = TAG_DOUBLE_ID ->
            DecodeFixed(bytes, pos, slab, 8,
                        IF Avail(bytes, pos, 8) THEN NodeDouble(ReadI64(bytes, pos)) ELSE None)
      [] tag = TAG_BYTE_ARRAY_ID -> DecodeArray(bytes, pos, slab, 1, "ByteArray")
      [] tag = TAG_STRING_ID ->
            LET r == DecodeString(bytes, pos, slab)
            IN  IF r.err # "None" THEN r
                ELSE DecOk(r.pos, SlabInsert(slab, NodeString(r.str)), SlabVacantKey(slab))
      [] tag = TAG_LIST_ID ->
            IF ~Avail(bytes, pos, 1) THEN DecErr("Truncated", pos, slab)
            ELSE IF bytes[pos] \notin ValueTags \cup {TAG_END_ID}
                 THEN DecErr("InvalidTag", pos, slab)
            ELSE IF ~Avail(bytes, pos + 1, 4) THEN DecErr("Truncated", pos + 1, slab)
            ELSE IF ReadI32(bytes, pos + 1) < 0 THEN DecErr("InvalidLength", pos + 1, slab)
            ELSE IF bytes[pos] = TAG_END_ID /\ ReadI32(bytes, pos + 1) > 0
                 THEN DecErr("InvalidTag", pos, slab)
            ELSE DecodeListItems(bytes, pos + 5, bytes[pos], ReadI32(bytes, pos + 1),
                                 SlabInsert(slab, NodeList(bytes[pos], <<>>)),
                                 SlabVacantKey(slab))
      [] tag = TAG_COMPOUND_ID ->
            DecodeCompoundBody(bytes, pos, SlabInsert(slab, NodeCompound(<<>>)),
                               SlabVacantKey(slab))
      [] tag = TAG_INT_ARRAY_ID -> DecodeArray(bytes, pos, slab, 4, "IntArray")
      [] tag = TAG_LONG_ARRAY_ID -> DecodeArray(bytes, pos, slab, 8, "LongArray")

\* The left more untagged values of type tag of the list at idx.
DecodeListItems(bytes, pos, tag, left, slab, idx) ==
    IF left = 0 THEN DecOk(pos, slab, idx)
    ELSE LET r == DecodeValue(bytes, pos, tag, slab)
             self == SlabGet(r.nodes, idx)
         IN  IF r.err # "None" THEN r
             ELSE DecodeListItems(bytes, r.pos, tag, left - 1,
                                  SlabSet(r.nodes, idx,
                                          NodeList(self.type_id, Append(self.children, r.idx))),
                                  idx)

\* The (tag, name, value) triples of the compound at idx, up to the end tag.
DecodeCompoundBody(bytes, pos, slab, idx) ==
    IF ~Avail(bytes, pos, 1) THEN DecErr("Truncated", pos, slab)
    ELSE IF bytes[pos] = TAG_END_ID THEN DecOk(pos + 1, slab, idx)
    ELSE IF bytes[pos] \notin ValueTags THEN DecErr("InvalidTag", pos, slab)
    ELSE LET name == DecodeString(bytes, pos + 1, slab)
             r == DecodeValue(bytes, name.pos, bytes[pos], slab)
             self == SlabGet(r.nodes, idx)
         IN  IF name.err # "None" THEN name
             ELSE IF r.err # "None" THEN r
             ELSE DecodeCompoundBody(bytes, r.pos,
                                     SlabSet(r.nodes, idx,
                                             NodeCompound(NBTCompound_insert(self.entries,
                                                                         name.str, r.idx))),
                                     idx)

\* The decoder's run over bytes: the tag of the root, which is a compound,
\* its name, and its body read into a new tree.
DecodeRun(bytes) ==
    IF ~Avail(bytes, 1, 1) THEN DecErr("Truncated", 1, SlabNew)
    ELSE IF bytes[1] # TAG_COMPOUND_ID THEN DecErr("InvalidTag", 1, SlabNew)
    ELSE LET name == DecodeString(bytes, 2, SlabNew)
             tree == new_named(name.str)
             r == DecodeCompoundBody(bytes, name.pos, tree.nodes, tree.root_index)
         IN  IF name.err # "None" THEN name
             ELSE IF r.err # "None" THEN r
             ELSE [r EXCEPT !.idx = NBT(tree.root_name, tree.root_index, r.nodes)]

Ok(v) == [ok |-> TRUE, value |-> v]
Err(e, offset) == [ok |-> FALSE, error |-> e, offset |-> offset]

\* decode returning, with the error, the tree read so far.
Decode_PartialTree(bytes) ==
    LET r == DecodeRun(bytes)
    IN  IF r.err = "None" THEN Ok(r.idx)
        ELSE [ok |-> FALSE, error |-> r.err, offset |-> r.pos,
              value |-> NBT(<<>>, 0, r.nodes)]

\* decode(bytes) -> Result<NBT, Error>: the tree, or the error's kind and
\* the position it was met at.
Decode(bytes) ==
    LET r == DecodeRun(bytes)
    IN  IF r.err = "None" THEN Ok(r.idx) ELSE Err(r.err, r.pos)

(***************************************************************************)
(* The read-only reference layer and structural equality.                  *)
(***************************************************************************)
\* get_reference with the Short arm returning NBTRef::Int.
get_reference_ShortAsInt(nbt, node_idx) ==
    LET node == SlabGet(nbt.nodes, node_idx)
    IN  CASE node.kind = "List" ->
                [variant |-> "List", node_idx |-> node_idx, children_type |-> node.type_id]
          [] node.kind = "Compound" ->
                [variant |-> "Compound", node_idx |-> node_idx]
          [] node.kind = "Short" -> [variant |-> "Int", value |-> node.value]
          [] OTHER -> [variant |-> node.kind, value |-> node.value]

\* get_reference giving the view of a list without children the element
\* type TAG_END_ID.
get_reference_EmptyListAsEnd(nbt, node_idx) ==
    LET node == SlabGet(nbt.nodes, node_idx)
    IN  CASE node.kind = "List" ->
                [variant |-> "List", node_idx |-> node_idx,
                 children_type |-> IF node.children = <<>> THEN TAG_END_ID
                                   ELSE node.type_id]
          [] node.kind = "Compound" ->
                [variant |-> "Compound", node_idx |-> node_idx]
          [] OTHER -> [variant |-> node.kind, value |-> node.value]

\* NBT::get_reference: a scalar view holds the payload, a container view
\* the handle (and, for a list, the declared element type).
get_reference(nbt, node_idx) ==
    LET node == SlabGet(nbt.nodes, node_idx)
    IN  CASE node.kind = "List" ->
                [variant |-> "List", node_idx |-> node_idx, children_type |-> node.type_id]
          [] node.kind = "Compound" ->
                [variant |-> "Compound", node_idx |-> node_idx]
          [] OTHER -> [variant |-> node.kind, value |-> node.value]

as_reference(nbt) == get_reference(nbt, nbt.root_index)

\* NBTRef == NBTRef: the same variant and equal payloads; lists child by
\* child in order; compounds of the same size, every key of the one found
\* in the other with an equal value.
RECURSIVE RefEq(_, _, _, _)
RefEq(a, ra, b, rb) ==
    IF ra.variant # rb.variant THEN FALSE
    ELSE IF ra.variant = "List"
    THEN LET ca == SlabGet(a.nodes, ra.node_idx).children
             cb == SlabGet(b.nodes, rb.node_idx).children
         IN  /\ Len(ca) = Len(cb)
             /\ \A i \in 1..Len(ca) :
                    RefEq(a, get_reference(a, ca[i]), b, get_reference(b, cb[i]))
    ELSE IF ra.variant = "Compound"
    THEN LET ea == SlabGet(a.nodes, ra.node_idx).entries
             eb == SlabGet(b.nodes, rb.node_idx).entries
         IN  /\ Len(ea) = Len(eb)
             /\ \A i \in 1..Len(ea) :
                    LET found == NBTCompound_find(eb, ea[i][1])
                    IN  /\ found.some
                        /\ RefEq(a, get_reference(a, ea[i][2]),
                                 b, get_reference(b, found.value))
    ELSE ra.value = rb.value

\* impl PartialEq for NBT
NBTEq(a, b) == RefEq(a, as_reference(a), b, as_reference(b))

(***************************************************************************)
(* Inputs of the model: keys, root names and the nodes the typed inserts   *)
(* and create_compound / create_list store.                                *)
(***************************************************************************)
\* "", "a", "ab"
Keys == {<<>>, <<97>>, <<97, 98>>}

\* "", "a", "ab", "b": the keys of the compound operated directly
CompoundKeys == {<<>>, <<97>>, <<97, 98>>, <<98>>}

\* "" (NBT::new) and "r"
RootNames == {<<>>, <<114>>}

\* One node of every basic type, and a second Short.
ScalarNodes ==
    { NodeByte(1), NodeShort(1), NodeShort(-2), NodeInt(1),
      NodeLong(<<0, 1>>), NodeFloat(1065353216), NodeDouble(<<-1074790400, 0>>),
      NodeByteArray(<<1, -1>>), NodeString(<<195, 169>>),
      NodeIntArray(<<1, -129>>), NodeLongArray(<< <<-1, -2>> >>) }

ContainerNodes ==
    { NodeCompound(<<>>), NodeList(TAG_BYTE_ID, <<>>), NodeList(TAG_COMPOUND_ID, <<>>) }

\* The nodes the operations of Spec store.
NewNodes == {NodeByte(1)} \cup ContainerNodes

(***************************************************************************)
(* The tree's operations, for the nodes of pool and an arena of at most    *)
(* max occupied slots.                                                     *)
(***************************************************************************)
InitTree ==
    \E name \in RootNames :
        LET t == new_named(name)
        IN  /\ root_name = t.root_name
            /\ root_index = t.root_index
            /\ nodes = t.nodes

\* A typed insert by key on the compound view at node_idx.
InsertNodeOf(max, keys, pool) ==
    \E node_idx \in KindHandles(nodes, root_index, "Compound"),
       key \in keys, node \in pool :
        /\ nodes.len < max
        /\ nodes' = CompoundRefMut_insert_node(nodes, node_idx, key, node)
        /\ call' = [op |-> "insert_node", node_idx |-> node_idx, key |-> key,
                    new_idx |-> SlabVacantKey(nodes)]
        /\ UNCHANGED nodesFrame

\* A typed append on the list view at node_idx.
ListInsertNodeOf(max, pool) ==
    \E node_idx \in KindHandles(nodes, root_index, "List"), node \in pool :
        /\ nodes.len < max
        /\ get_type(node) = SlabGet(nodes, node_idx).type_id
        /\ nodes' = ListRefMut_insert_node(nodes, node_idx, node)
        /\ call' = [op |-> "list_insert_node", node_idx |-> node_idx,
                    new_idx |-> SlabVacantKey(nodes)]
        /\ UNCHANGED nodesFrame

\* Removal by key on the compound view at node_idx.
CompoundRemoveOf(keys) ==
    \E node_idx \in KindHandles(nodes, root_index, "Compound"), key \in keys :
        LET r == CompoundRefMut_remove(nodes, node_idx, key)
        IN  /\ nodes' = r.nodes
            /\ call' = [op |-> "remove", node_idx |-> node_idx, key |-> key,
                        removed |-> NBTCompound_find(SlabGet(nodes, node_idx).entries, key),
                        panic |-> r.panic]
            /\ UNCHANGED nodesFrame

\* Removal by index on the list view at node_idx.
ListRemove ==
    \E node_idx \in KindHandles(nodes, root_index, "List") :
        \E index \in 0..(Len(SlabGet(nodes, node_idx).children) - 1) :
            LET r == ListRefMut_remove(nodes, node_idx, index)
            IN  /\ nodes' = r.nodes
                /\ call' = [op |-> "remove",
                            node_idx |-> node_idx, key |-> index,
                            removed |-> Some(SlabGet(nodes, node_idx).children[index + 1]),
                            panic |-> r.panic]
                /\ UNCHANGED nodesFrame

InsertNode == InsertNodeOf(MaxNodes, Keys, NewNodes)

CompoundRemove == CompoundRemoveOf(Keys)

ListInsertNode == ListInsertNodeOf(MaxNodes, NewNodes)

Init ==
    /\ InitTree
    /\ call = [op |-> "new"]
    /\ compound = <<>>
    /\ inserted = [k \in CompoundKeys |-> None]
    /\ views = {}
    /\ other = NBT(root_name, root_index, nodes)
    /\ task = [pc |-> "idle"]
    /\ disk = [app |-> "installed"]
    /\ modal_action = [error |-> None, finished |-> FALSE, visit_url |-> None, clones |-> 0]
    /\ frontend = <<>>
    /\ replace = [pc |-> "idle"]
    /\ serial = [pc |-> "idle"]
    /\ poll = [pc |-> "idle"]

Next ==
    \/ InsertNode
    \/ ListInsertNode
    \/ CompoundRemove
    \/ ListRemove

Spec == Init /\ [][Next]_vars

(***************************************************************************)
(* The codec's pipeline on a tree of every kind of node: encode, decode    *)
(* of the bytes, encode of the decoded tree.                               *)
(***************************************************************************)
\* The most occupied arena slots of a tree of SpecCodec.
CodecMaxNodes == 3

CodecNodes == ScalarNodes \cup ContainerNodes

Tree == NBT(root_name, root_index, nodes)

\* "a", "ab"
CodecKeys == {<<97>>, <<97, 98>>}

CodecInsertNode == InsertNodeOf(CodecMaxNodes, CodecKeys, CodecNodes)

CodecCompoundRemove == CompoundRemoveOf(CodecKeys)

CodecListInsertNode == ListInsertNodeOf(CodecMaxNodes, CodecNodes)

EncodeTree ==
    /\ call.op \notin {"encode", "decode", "reencode"}
    /\ call' = [op |-> "encode", bytes |-> Encode(Tree)]
    /\ UNCHANGED callFrame

DecodeBytes ==
    /\ call.op = "encode"
    /\ call' = [op |-> "decode", input |-> call.bytes, result |-> Decode(call.bytes)]
    /\ UNCHANGED callFrame

EncodeDecoded ==
    /\ call.op = "decode"
    /\ call.result.ok
    /\ call' = [op |-> "reencode", input |-> call.input,
                bytes |-> Encode(call.result.value)]
    /\ UNCHANGED callFrame

NextCodec ==
    \/ CodecInsertNode
    \/ CodecListInsertNode
    \/ CodecCompoundRemove
    \/ EncodeTree
    \/ DecodeBytes
    \/ EncodeDecoded

SpecCodec == Init /\ [][NextCodec]_vars

\* C1: whenever the bytes of encode(T) have been decoded, the decode has
\* succeeded and the decoded tree is structurally equal to T (== both ways).
C1_RoundTripTree ==
    call.op = "decode" =>
        /\ call.result.ok
        /\ NBTEq(call.result.value, Tree)
        /\ NBTEq(Tree, call.result.value)

\* A list holding a child has been through encode and decode.
C1_Witness ==
    /\ call.op = "decode"
    /\ call.result.ok
    /\ \E h \in KindHandles(nodes, root_index, "List") :
           Len(SlabGet(nodes, h).children) > 0

\* C2: whenever the tree decoded from the bytes B of an encoder has been
\* encoded again, the bytes written are B.
C2_RoundTripBytes ==
    call.op = "reencode" => call.bytes = call.input

\* The re-encoded tree had two root entries, the greater key inserted first.
C2_Witness ==
    /\ call.op = "reencode"
    /\ LET e == SlabGet(nodes, root_index).entries
       IN  Len(e) = 2 /\ e[1][2] > e[2][2]

(***************************************************************************)
(* Decoding of malformed input: the bytes of an encoded tree with one      *)
(* fault put in.                                                           *)
(***************************************************************************)
\* The most occupied arena slots of a tree of SpecDecode.
DecodeMaxNodes == 3

DecodeNodes ==
    { NodeShort(-2), NodeString(<<195, 169>>), NodeIntArray(<<1, -129>>),
      NodeList(TAG_STRING_ID, <<>>), NodeCompound(<<>>) }

DecodeInsertNode == InsertNodeOf(DecodeMaxNodes, CodecKeys, DecodeNodes)

DecodeListInsertNode == ListInsertNodeOf(DecodeMaxNodes, DecodeNodes)

\* Byte values no valid input has in the place they are put: a type tag the
\* format does not define, the top byte of a negative count, a byte no
\* UTF-8 string holds.
BadTagBytes == {13, 255}
NegativeTopBytes == {128}
NonUtf8Bytes == {255}

RolePositions(roles, wanted) == {i \in 1..Len(roles) : roles[i][2] \in wanted}

\* The malformed inputs made from the encoding roles: each with the class of
\* its fault and the position of the fault.
Malformed(roles) ==
    LET bytes == Untagged(roles)
    IN  {[fault |-> "truncated", at |-> n + 1, bytes |-> SubSeq(bytes, 1, n)] :
            n \in 0..(Len(bytes) - 1)}
        \cup {[fault |-> "tag", at |-> x[1], bytes |-> [bytes EXCEPT ![x[1]] = x[2]]] :
                x \in RolePositions(roles, {"tag", "etag"}) \X BadTagBytes}
        \cup {[fault |-> "length", at |-> x[1], bytes |-> [bytes EXCEPT ![x[1]] = x[2]]] :
                x \in RolePositions(roles, {"len"}) \X NegativeTopBytes}
        \cup {[fault |-> "utf8", at |-> x[1], bytes |-> [bytes EXCEPT ![x[1]] = x[2]]] :
                x \in RolePositions(roles, {"str"}) \X NonUtf8Bytes}

DecodeMalformed ==
    \E input \in Malformed(EncodeRoles(Tree)) :
        /\ call' = [op |-> "decode", fault |-> input.fault, at |-> input.at,
                    input |-> input.bytes, result |-> Decode(input.bytes)]
        /\ UNCHANGED callFrame

DecodeWellFormed ==
    /\ call' = [op |-> "decode", fault |-> "none", at |-> 0,
                input |-> Encode(Tree), result |-> Decode(Encode(Tree))]
    /\ UNCHANGED callFrame

NextDecode ==
    \/ DecodeInsertNode
    \/ DecodeListInsertNode
    \/ DecodeMalformed
    \/ DecodeWellFormed

SpecDecode == Init /\ [][NextDecode]_vars

ErrorKinds == {"Truncated", "InvalidTag", "InvalidLength", "InvalidUtf8"}

\* The error kind the format's rules give each class of fault.
KindOfFault(fault) ==
    CASE fault = "truncated" -> "Truncated"
      [] fault = "tag" -> "InvalidTag"
      [] fault = "length" -> "InvalidLength"
      [] fault = "utf8" -> "InvalidUtf8"

\* C7: decode of truncated input fails with Truncated, of an unrecognized
\* tag byte with InvalidTag, of a negative array or list length with
\* InvalidLength, of a string that is not UTF-8 with InvalidUtf8: never a
\* tree, never another kind; the four kinds are pairwise distinct.
C7_DecodeFailureClassification ==
    /\ (call.op = "decode" /\ call.fault # "none") =>
            /\ ~call.result.ok
            /\ call.result.error \in ErrorKinds
            /\ call.result.error = KindOfFault(call.fault)
    /\ Cardinality({KindOfFault(f) : f \in {"truncated", "tag", "length", "utf8"}}) = 4

\* A negative element count of a list nested in the root has been decoded.
C7_Witness ==
    /\ call.op = "decode"
    /\ call.fault = "length"
    /\ call.result = Err("InvalidLength", call.at)
    /\ \E h \in KindHandles(nodes, root_index, "List") :
           Len(SlabGet(nodes, h).children) > 0

\* C8: a decode call that meets an error returns the error alone, with no
\* tree, and stops there: the error is met at or before the fault, and a
\* decode of the input's bytes up to the fault fails too.
C8_DecodeAllOrNothing ==
    (call.op = "decode" /\ call.fault # "none") =>
        /\ ~call.result.ok
        /\ DOMAIN call.result = {"ok", "error", "offset"}
        /\ call.result.offset <= call.at
        /\ ~Decode(SubSeq(call.input, 1,
                          IF call.at < Len(call.input)
                          THEN call.at ELSE Len(call.input))).ok

\* A string below the root was not UTF-8: the root and an entry before the
\* string had been read into the arena when the error was met, and the call
\* returned the error alone.
C8_Witness ==
    /\ call.op = "decode"
    /\ call.fault = "utf8"
    /\ call.result = Err("InvalidUtf8", call.at)
    /\ DecodeRun(call.input).nodes.len >= 2

(***************************************************************************)
(* Whole-tree == between the tree and a clone of an earlier state of it.   *)
(***************************************************************************)
\* The most occupied arena slots of a tree of SpecEq.
EqMaxNodes == 3

EqNodes == {NodeShort(1), NodeInt(1), NodeInt(2), NodeList(TAG_INT_ID, <<>>)}

EqInsertNode == InsertNodeOf(EqMaxNodes, CodecKeys, EqNodes)

EqListInsertNode == ListInsertNodeOf(EqMaxNodes, EqNodes)

EqCompoundRemove == CompoundRemoveOf(CodecKeys)

\* NBT derives Clone; the clone is taken of a tree no slot of which is vacant.
CloneTree ==
    /\ nodes.len = Len(nodes.entries)
    /\ other' = Tree
    /\ call' = [op |-> "clone"]
    /\ UNCHANGED <<treeVars, compoundVars, views, launcherVars>>

CompareTrees ==
    /\ call' = [op |-> "eq", result |-> NBTEq(Tree, other),
                reverse |-> NBTEq(other, Tree)]
    /\ UNCHANGED callFrame

NextEq ==
    \/ EqInsertNode
    \/ EqListInsertNode
    \/ EqCompoundRemove
    \/ CloneTree
    \/ CompareTrees

SpecEq == Init /\ [][NextEq]_vars

\* What the tree below idx holds, whatever the handles: a scalar's kind and
\* payload, a list's children in order, a compound's keys with their values.
RECURSIVE Structure(_, _)
Structure(slab, idx) ==
    LET node == SlabGet(slab, idx)
    IN  CASE node.kind = "List" ->
                [kind |-> "List",
                 items |-> [i \in 1..Len(node.children) |->
                               Structure(slab, node.children[i])]]
          [] node.kind = "Compound" ->
                [kind |-> "Compound",
                 fields |-> {<<node.entries[i][1], Structure(slab, node.entries[i][2])>> :
                                i \in 1..Len(node.entries)}]
          [] OTHER -> [kind |-> node.kind, value |-> node.value]

\* C10: two trees compare equal with ==, either way round, exactly when
\* their roots hold the same structure: the same kind and, recursively,
\* equal payloads, equal list children in order, the same keys with equal
\* values, whatever handles the nodes occupy and whatever order the keys
\* were inserted in.
C10_StructuralEquality ==
    call.op = "eq" =>
        /\ call.result <=> (Structure(nodes, root_index)
                              = Structure(other.nodes, other.root_index))
        /\ call.reverse = call.result

\* Two trees with the same two entries under other handles compared equal.
C10_Witness ==
    /\ call.op = "eq"
    /\ call.result
    /\ Len(SlabGet(nodes, root_index).entries) = 2
    /\ SlabGet(nodes, root_index).entries # SlabGet(other.nodes, other.root_index).entries

(***************************************************************************)
(* Mutable views.  A view is borrowed from the tree itself (from = 0:      *)
(* as_compound_mut, as_reference_mut) or from another view (from = that    *)
(* view's id: navigation to a child, which calls get_reference_mut).  The  *)
(* `&mut self` receiver of each of these methods, with the result's        *)
(* lifetime bound to it, makes the borrow checker accept the call only     *)
(* while nothing else is borrowed from the same owner, and keeps the owner *)
(* out of use for as long as the view lives.                               *)
(***************************************************************************)
\* The most views alive at once, and the most occupied arena slots, in
\* SpecViews.
MaxViews == 2
ViewMaxNodes == 3

ViewNodes == {NodeByte(1), NodeCompound(<<>>), NodeList(TAG_BYTE_ID, <<>>)}

ViewIds == 1..MaxViews

\* `&mut self` on owner (0: the tree; else a view's id): nothing borrowed
\* from owner is alive.
Borrowable_Shared(owner) == TRUE

Borrowable(owner) == \A w \in views : w.from # owner

\* A view can be used, and dropped, while no view borrowed from it lives.
Usable(v) == Borrowable(v.id)

FreshId == CHOOSE id \in ViewIds : \A w \in views : w.id # id

\* NBT::as_compound_mut / as_reference_mut: a view of the root.
AsCompoundMut ==
    /\ Cardinality(views) < MaxViews
    /\ Borrowable(0)
    /\ SlabGet(nodes, root_index).kind = "Compound"
    /\ views' = views \cup {[id |-> FreshId, node_idx |-> root_index, from |-> 0]}
    /\ call' = [op |-> "as_compound_mut", node_idx |-> root_index]
    /\ UNCHANGED <<treeVars, compoundVars, other, launcherVars>>

\* Navigation from a view to a child of its node: get_reference_mut(child).
GetReferenceMut ==
    \E v \in views :
        \E i \in 1..Len(ChildSeq(SlabGet(nodes, v.node_idx))) :
            /\ Cardinality(views) < MaxViews
            /\ Borrowable(v.id)
            /\ views' = views \cup {[id |-> FreshId,
                                    node_idx |-> ChildSeq(SlabGet(nodes, v.node_idx))[i],
                                    from |-> v.id]}
            /\ call' = [op |-> "get_reference_mut",
                        node_idx |-> ChildSeq(SlabGet(nodes, v.node_idx))[i]]
            /\ UNCHANGED <<treeVars, compoundVars, other, launcherVars>>

\* The end of a view's lifetime.
DropView ==
    \E v \in views :
        /\ Usable(v)
        /\ views' = views \ {v}
        /\ call' = [op |-> "drop", node_idx |-> v.node_idx]
        /\ UNCHANGED <<treeVars, compoundVars, other, launcherVars>>

\* A typed insert through a usable view of a compound or a list.
ViewInsertNode ==
    \E v \in views, key \in CodecKeys, node \in ViewNodes :
        /\ Usable(v)
        /\ nodes.len < ViewMaxNodes
        /\ \/ /\ SlabGet(nodes, v.node_idx).kind = "Compound"
              /\ nodes' = CompoundRefMut_insert_node(nodes, v.node_idx, key, node)
           \/ /\ SlabGet(nodes, v.node_idx).kind = "List"
              /\ get_type(node) = SlabGet(nodes, v.node_idx).type_id
              /\ nodes' = ListRefMut_insert_node(nodes, v.node_idx, node)
        /\ call' = [op |-> "insert_node", node_idx |-> v.node_idx, key |-> key,
                    new_idx |-> SlabVacantKey(nodes)]
        /\ UNCHANGED nodesFrame

\* Removal by key through a usable view of a compound.
ViewRemove ==
    \E v \in views, key \in CodecKeys :
        /\ Usable(v)
        /\ SlabGet(nodes, v.node_idx).kind = "Compound"
        /\ LET r == CompoundRefMut_remove(nodes, v.node_idx, key)
           IN  /\ nodes' = r.nodes
               /\ call' = [op |-> "remove", node_idx |-> v.node_idx, key |-> key,
                           removed |-> NBTCompound_find(SlabGet(nodes, v.node_idx).entries,
                                                        key),
                           panic |-> r.panic]
        /\ UNCHANGED nodesFrame

NextViews ==
    \/ AsCompoundMut
    \/ GetReferenceMut
    \/ DropView
    \/ ViewInsertNode
    \/ ViewRemove

SpecViews == Init /\ [][NextViews]_vars

\* C9: at most one mutable view can be used at a time; any two live views
\* are a view and one borrowed, directly or through others, from it, so two
\* views into overlapping subtrees are never both in use; and every live
\* view still addresses a node of the arena.
RECURSIVE BorrowedThrough(_, _, _)
BorrowedThrough(v, w, fuel) ==
    /\ fuel > 0
    /\ \/ v.from = w.id
       \/ \E u \in views : v.from = u.id /\ BorrowedThrough(u, w, fuel - 1)

MaxHandle == 2

NBTCompoundInsert ==
    \E key \in CompoundKeys, value \in 0..MaxHandle :
        /\ compound' = NBTCompound_insert(compound, key, value)
        /\ inserted' = [inserted EXCEPT ![key] = Some(value)]
        /\ call' = [op |-> "NBTCompound::insert", key |-> key, value |-> value]
        /\ UNCHANGED <<treeVars, views, other, launcherVars>>

NBTCompoundRemove ==
    \E key \in CompoundKeys :
        LET r == NBTCompound_remove(compound, key)
        IN  /\ compound' = r.entries
            /\ inserted' = [inserted EXCEPT ![key] = None]
            /\ call' = [op |-> "NBTCompound::remove", key |-> key, result |-> r.result]
            /\ UNCHANGED <<treeVars, views, other, launcherVars>>

NBTCompoundFind ==
    \E key \in CompoundKeys :
        /\ call' = [op |-> "NBTCompound::find", key |-> key,
                    result |-> NBTCompound_find(compound, key)]
        /\ UNCHANGED callFrame

NextCompound ==
    \/ NBTCompoundInsert
    \/ NBTCompoundRemove
    \/ NBTCompoundFind

SpecCompound == Init /\ [][NextCompound]_vars

\* The positions of the entries named key.
EntriesOf(entries, key) == {i \in 1..Len(entries) : entries[i][1] = key}

\* C3: for every key inserted and not removed since, the compound holds
\* exactly one entry with that key, and the entry's handle is the one of the
\* most recent insert of the key.
C3_CompoundUniqueness ==
    \A key \in CompoundKeys :
        inserted[key].some =>
            /\ Cardinality(EntriesOf(compound, key)) = 1
            /\ \A i \in EntriesOf(compound, key) : compound[i][2] = inserted[key].value

\* A key was inserted again with another handle, among three other entries.
C3_Witness ==
    /\ call.op = "NBTCompound::insert"
    /\ Len(compound) = 4
    /\ \E i \in 1..4 : compound[i][1] = call.key /\ call.value # i - 1
    /\ \E key \in CompoundKeys : inserted[key].some /\ inserted[key].value # call.value

\* C4: the keys of the entry vector are strictly increasing.
C4_SortedInvariant ==
    \A i \in 1..(Len(compound) - 1) : StrLess(compound[i][1], compound[i + 1][1])

\* A key was removed from the middle of four and inserted again.
C4_Witness ==
    /\ call.op = "NBTCompound::insert"
    /\ Len(compound) = 4
    /\ call.key = <<97>>
    /\ compound[2] = <<call.key, call.value>>

(***************************************************************************)
(* Claims on the tree's operations (Spec).                                 *)
(***************************************************************************)
\* The number of edges into idx: entries of compounds and children of lists
\* that hold idx.
ParentEdges(slab, idx) ==
    {<<p, i>> \in SlabKeys(slab) \X (1..Len(slab.entries)) :
        /\ i <= Len(ChildSeq(SlabGet(slab, p)))
        /\ ChildSeq(SlabGet(slab, p))[i] = idx}

\* C5: a removal that calls remove_node(h) on a node h other than the root
\* removes from the arena h and every node reachable from h, and no other
\* node; the arena's length afterwards plus the size of h's subtree is its
\* length before; every node that stays, but the parent h was unlinked
\* from, is as it was.
C5_RemovalCascades ==
    [][(call'.op = "remove" /\ call'.removed.some) =>
          LET h == call'.removed.value
              gone == Subtree(nodes, h)
          IN  /\ ~call'.panic
              /\ h \in gone
              /\ SlabKeys(nodes') = SlabKeys(nodes) \ gone
              /\ nodes'.len + Cardinality(gone) = nodes.len
              /\ \A k \in SlabKeys(nodes') \ {call'.node_idx} :
                     SlabGet(nodes', k) = SlabGet(nodes, k)]_vars

\* A container holding a child has just been removed.
C5_Witness ==
    /\ call.op = "remove"
    /\ call.removed.some
    /\ ~call.panic
    /\ nodes.len = 1
    /\ Len(nodes.entries) = 3

\* C6: every node stored in the arena other than the root is reachable from
\* the root and has exactly one parent edge; the root has none.
C6_TreeShape ==
    /\ SlabKeys(nodes) = Subtree(nodes, root_index)
    /\ Cardinality(ParentEdges(nodes, root_index)) = 0
    /\ \A k \in SlabKeys(nodes) \ {root_index} :
           Cardinality(ParentEdges(nodes, k)) = 1

(***************************************************************************)
(* Lists without children, of every element type, through the codec.       *)
(***************************************************************************)
\* The most occupied arena slots of a tree of SpecEmptyList.
EmptyListMaxNodes == 3

\* The element types a list is declared with: every tag, the end tag too.
ElementTags == TAG_END_ID..TAG_LONG_ARRAY_ID

EmptyListNodes == {NodeList(t, <<>>) : t \in ElementTags} \cup {NodeCompound(<<>>)}

EmptyListInsertNode == InsertNodeOf(EmptyListMaxNodes, CodecKeys, EmptyListNodes)

EmptyListListInsertNode == ListInsertNodeOf(EmptyListMaxNodes, EmptyListNodes)

EmptyListEncode ==
    /\ call.op \notin {"encode", "decode"}
    /\ call' = [op |-> "encode", bytes |-> Encode(Tree)]
    /\ UNCHANGED callFrame

EmptyListDecode ==
    /\ call.op = "encode"
    /\ call' = [op |-> "decode", input |-> call.bytes, result |-> Decode(call.bytes)]
    /\ UNCHANGED callFrame

NextEmptyList ==
    \/ EmptyListInsertNode
    \/ EmptyListListInsertNode
    \/ EmptyListEncode
    \/ EmptyListDecode

SpecEmptyList == Init /\ [][NextEmptyList]_vars

\* The lists without children below idx, each by its path from idx (keys
\* and positions in lists) with the element type its node was declared with.
RECURSIVE DeclaredEmptyLists(_, _, _)
DeclaredEmptyLists(slab, idx, path) ==
    LET node == SlabGet(slab, idx)
    IN  CASE node.kind = "List" ->
                IF node.children = <<>> THEN {<<path, node.type_id>>}
                ELSE UNION {DeclaredEmptyLists(slab, node.children[i], Append(path, <<"at", <<i>>>>)) :
                               i \in 1..Len(node.children)}
          [] node.kind = "Compound" ->
                UNION {DeclaredEmptyLists(slab, node.entries[i][2],
                                          Append(path, <<"key", node.entries[i][1]>>)) :
                          i \in 1..Len(node.entries)}
          [] OTHER -> {}

\* The same lists with the element type their ListRef view shows.
RECURSIVE ViewedEmptyLists(_, _, _)
ViewedEmptyLists(nbt, idx, path) ==
    LET node == SlabGet(nbt.nodes, idx)
    IN  CASE node.kind = "List" ->
                IF node.children = <<>>
                THEN {<<path, get_reference(nbt, idx).children_type>>}
                ELSE UNION {ViewedEmptyLists(nbt, node.children[i], Append(path, <<"at", <<i>>>>)) :
                               i \in 1..Len(node.children)}
          [] node.kind = "Compound" ->
                UNION {ViewedEmptyLists(nbt, node.entries[i][2],
                                        Append(path, <<"key", node.entries[i][1]>>)) :
                          i \in 1..Len(node.entries)}
          [] OTHER -> {}

\* C11: whenever the bytes of encode(T) have been decoded, every list of T
\* without children, whatever element type it was declared with, is found
\* at the same place of the decoded tree, without children and showing the
\* same element type.
C11_EmptyListTypePreservation ==
    call.op = "decode" =>
        /\ call.result.ok
        /\ ViewedEmptyLists(call.result.value, call.result.value.root_index, <<>>)
              = DeclaredEmptyLists(nodes, root_index, <<>>)

\* A list without children declared with the end tag, itself the child of a
\* list, has been through the codec.
C11_Witness ==
    /\ call.op = "decode"
    /\ call.result.ok
    /\ \E x \in DeclaredEmptyLists(nodes, root_index, <<>>) :
           /\ x[2] = TAG_END_ID
           /\ Len(x[1]) = 2
           /\ x[1][2] = <<"at", <<1>>>>

(***************************************************************************)
(* The encoding of the tree of root name "" with the string field "name"   *)
(* and the int field "value".                                              *)
(***************************************************************************)
\* The most occupied arena slots of a tree of SpecReference.
ReferenceMaxNodes == 3

\* "name", "value"
KeyName == <<110, 97, 109, 101>>
KeyValue == <<118, 97, 108, 117, 101>>

\* "bananrama"
Bananrama == <<98, 97, 110, 97, 110, 114, 97, 109, 97>>

ReferenceNodes == {NodeString(Bananrama), NodeInt(1), NodeInt(2)}

ReferenceInsertNode ==
    InsertNodeOf(ReferenceMaxNodes, {KeyName, KeyValue}, ReferenceNodes)

ReferenceRemove == CompoundRemoveOf({KeyName, KeyValue})

ReferenceEncode ==
    /\ call' = [op |-> "encode", bytes |-> Encode(Tree)]
    /\ UNCHANGED callFrame

NextReference ==
    \/ ReferenceInsertNode
    \/ ReferenceRemove
    \/ ReferenceEncode

SpecReference == Init /\ [][NextReference]_vars

\* The tree is {"": {"name": "bananrama", "value": 1i}}.
IsReferenceTree ==
    /\ root_name = <<>>
    /\ Structure(nodes, root_index)
          = [kind |-> "Compound",
             fields |-> {<<KeyName, [kind |-> "String", value |-> Bananrama]>>,
                         <<KeyValue, [kind |-> "Int", value |-> 1]>>}]

\* tag 10, name length 0; tag 8, length 4, "name", length 9, "bananrama";
\* tag 3, length 5, "value", int32 1; tag 0.
ReferenceBytes ==
    <<10, 0, 0>>
    \o <<8, 0, 4>> \o KeyName \o <<0, 9>> \o Bananrama
    \o <<3, 0, 5>> \o KeyValue \o <<0, 0, 0, 1>>
    \o <<0>>

\* C12: the encoding of the tree of root name "" holding the string field
\* "name" = "bananrama" and the int field "value" = 1 is the byte sequence
\* ReferenceBytes, the entries in ascending key order, whatever order the
\* fields were inserted in and whatever handles they occupy.
C12_ReferenceEncoding ==
    (call.op = "encode" /\ IsReferenceTree) => call.bytes = ReferenceBytes

\* The tree was encoded with "value" inserted before "name".
C12_Witness ==
    /\ call.op = "encode"
    /\ IsReferenceTree
    /\ LET e == SlabGet(nodes, root_index).entries
       IN  e[1][2] > e[2][2]

\* C13: in every step of the tree's operations, a handle reachable from the
\* root before and after the step denotes the same node (the view operated
\* on keeps its kind, every other node is untouched); the handle an insert
\* returns was not occupied before the insert, is occupied after it, and is
\* held by the parent inserted into.
C13_HandleStability ==
    [][/\ \A k \in Subtree(nodes, root_index) \cap Subtree(nodes', root_index) :
              IF k = call'.node_idx
              THEN SlabGet(nodes', k).kind = SlabGet(nodes, k).kind
              ELSE SlabGet(nodes', k) = SlabGet(nodes, k)
       /\ call'.op \in {"insert_node", "list_insert_node"} =>
              /\ ~SlabContains(nodes, call'.new_idx)
              /\ SlabContains(nodes', call'.new_idx)
              /\ \E i \in 1..Len(ChildSeq(SlabGet(nodes', call'.node_idx))) :
                     ChildSeq(SlabGet(nodes', call'.node_idx))[i] = call'.new_idx]_vars

\* An insert has been given the slot of a removed node, below the handle of
\* a node that is still referenced.
C13_Witness ==
    /\ call.op = "insert_node"
    /\ call.new_idx + 1 < Len(nodes.entries)
    /\ nodes.len = Len(nodes.entries)
    /\ SlabKeys(nodes) = Subtree(nodes, root_index)

(***************************************************************************)
(* The tree's operations and remove_node called with the root handle.      *)
(***************************************************************************)
\* remove_node(self.root_index)
RemoveRootNode ==
    LET r == remove_node(nodes, root_index)
    IN  /\ nodes' = r.nodes
        /\ call' = [op |-> "remove_node", idx |-> root_index, before |-> nodes,
                    panic |-> r.panic]
        /\ UNCHANGED nodesFrame

NextRoot ==
    \/ InsertNode
    \/ ListInsertNode
    \/ CompoundRemove
    \/ ListRemove
    \/ RemoveRootNode

SpecRoot == Init /\ [][NextRoot]_vars

\* C14: the root handle denotes a node stored in the arena in every state,
\* and remove_node called with the root handle of a tree made by new or
\* new_named panics with the arena as it was before the call.
C14_RootNeverRemoved ==
    /\ SlabContains(nodes, root_index)
    /\ call.op = "remove_node" =>
           /\ call.idx = root_index
           /\ call.panic
           /\ nodes = call.before

\* remove_node was called with the root handle of a tree of three nodes.
C14_Witness ==
    /\ call.op = "remove_node"
    /\ call.panic
    /\ nodes.len = 3
    /\ Len(SlabGet(nodes, root_index).entries) > 0

(***************************************************************************)
(* Further claims on the NBTCompound operated directly (SpecCompound).     *)
(***************************************************************************)
\* The handles the entries named key hold.
HandlesOf(entries, key) == {entries[i][2] : i \in EntriesOf(entries, key)}

\* C15: find and remove of a key the compound does not hold give None and
\* leave the entries as they were; find of a key it holds gives Some of its
\* handle and changes nothing; remove of a key it holds gives Some of the
\* handle find gives, takes the key out and leaves every other key with its
\* handle; a key removed and not inserted since is not found.
C15_AbsenceNotError ==
    [][/\ call'.op = "NBTCompound::find" =>
              /\ compound' = compound
              /\ IF EntriesOf(compound, call'.key) = {}
                 THEN call'.result = None
                 ELSE /\ call'.result.some
                      /\ HandlesOf(compound, call'.key) = {call'.result.value}
       /\ call'.op = "NBTCompound::remove" =>
              IF EntriesOf(compound, call'.key) = {}
              THEN call'.result = None /\ compound' = compound
              ELSE /\ call'.result = NBTCompound_find(compound, call'.key)
                   /\ call'.result.some
                   /\ HandlesOf(compound, call'.key) = {call'.result.value}
                   /\ NBTCompound_find(compound', call'.key) = None
                   /\ EntriesOf(compound', call'.key) = {}
                   /\ Len(compound') = Len(compound) - 1
                   /\ \A k \in CompoundKeys \ {call'.key} :
                          /\ HandlesOf(compound', k) = HandlesOf(compound, k)
                          /\ NBTCompound_find(compound', k) = NBTCompound_find(compound, k)
       /\ \A k \in CompoundKeys :
              ~inserted'[k].some => NBTCompound_find(compound', k) = None]_vars

\* A key between two others has been removed and its handle returned.
C15_Witness ==
    /\ call.op = "NBTCompound::remove"
    /\ call.result.some
    /\ Len(compound) = 3
    /\ StrLess(compound[1][1], call.key)
    /\ StrLess(call.key, compound[2][1])

(***************************************************************************)
(* Further claims on the tree's operations (Spec).                         *)
(***************************************************************************)
\* C16: a typed insert under a key the compound already holds replaces the
\* handle of that entry alone (NBTCompound::insert): the compound keeps its
\* number of entries and every other entry, the arena gains the new node
\* and nothing else of it changes; the node the old handle denoted, with
\* all below it, is still stored as it was.
C16_OverwriteKeepsOldChild ==
    [][(/\ call'.op = "insert_node"
        /\ NBTCompound_find(SlabGet(nodes, call'.node_idx).entries, call'.key).some) =>
          LET before == SlabGet(nodes, call'.node_idx).entries
              after == SlabGet(nodes', call'.node_idx).entries
              old == NBTCompound_find(before, call'.key).value
          IN  /\ Len(after) = Len(before)
              /\ \A i \in 1..Len(before) :
                     after[i] = IF before[i][1] = call'.key
                                THEN <<call'.key, call'.new_idx>>
                                ELSE before[i]
              /\ old # call'.new_idx
              /\ SlabContains(nodes', old)
              /\ Subtree(nodes', old) = Subtree(nodes, old)
              /\ SlabKeys(nodes') = SlabKeys(nodes) \cup {call'.new_idx}
              /\ \A k \in SlabKeys(nodes) \ {call'.node_idx} :
                     SlabGet(nodes', k) = SlabGet(nodes, k)]_vars

\* The root's one key has been inserted again: the node of the first insert
\* is stored at its handle, and no entry holds it.
C16_Witness ==
    /\ call.op = "insert_node"
    /\ call.node_idx = root_index
    /\ SlabGet(nodes, root_index).entries = <<<<call.key, call.new_idx>>>>
    /\ nodes.len = 3
    /\ SlabKeys(nodes) \ Subtree(nodes, root_index) = {1}

(***************************************************************************)
(* The same distinct keys inserted into an empty NBTCompound in two        *)
(* orders, once in a run.                                                  *)
(***************************************************************************)
\* The handles given to the keys.
OrderHandles == 0..1

\* The orders a set of keys can be inserted in.
Orders(keys) ==
    {p \in [1..Cardinality(keys) -> keys] :
        \A i, j \in 1..Cardinality(keys) : p[i] = p[j] => i = j}

\* NBTCompound::insert of the keys of order from position i on, each with
\* its handle, into entries.
RECURSIVE InsertAll(_, _, _, _)
InsertAll(entries, order, handle, i) ==
    IF i > Len(order) THEN entries
    ELSE InsertAll(NBTCompound_insert(entries, order[i], handle[order[i]]),
                   order, handle, i + 1)

InsertInTwoOrders ==
    \E keys \in SUBSET CompoundKeys, handle \in [CompoundKeys -> OrderHandles] :
        \E first, second \in Orders(keys) :
            /\ call.op = "new"
            /\ call' = [op |-> "insert_all", keys |-> keys, handle |-> handle,
                        first |-> first, second |-> second,
                        a |-> InsertAll(<<>>, first, handle, 1),
                        b |-> InsertAll(<<>>, second, handle, 1)]
            /\ UNCHANGED callFrame

NextOrder == InsertInTwoOrders

SpecOrder == Init /\ [][NextOrder]_vars

\* The keys with their handles in ascending order of the keys.
RECURSIVE AscendingEntries(_, _)
AscendingEntries(keys, handle) ==
    IF keys = {} THEN <<>>
    ELSE LET least == CHOOSE k \in keys : \A j \in keys \ {k} : StrLess(k, j)
         IN  <<<<least, handle[least]>>>> \o AscendingEntries(keys \ {least}, handle)

\* C17: the same distinct keys inserted into an empty compound in any two
\* orders give the same entry sequence, which holds the keys in ascending
\* order.
C17_InsertionOrderIrrelevant ==
    call.op = "insert_all" =>
        /\ call.a = call.b
        /\ call.a = AscendingEntries(call.keys, call.handle)

\* Four keys were inserted in descending and in ascending order.
C17_Witness ==
    /\ call.op = "insert_all"
    /\ Len(call.a) = 4
    /\ \A i \in 1..3 : StrLess(call.first[i + 1], call.first[i])
    /\ \A i \in 1..3 : StrLess(call.second[i], call.second[i + 1])

(***************************************************************************)
(* Creation of a tree: new and new_named, in place of a tree that has been *)
(* operated on.                                                            *)
(***************************************************************************)
\* NBT::new
new == new_named(<<>>)

\* NBT::as_compound: the view of the root when the root is a compound.
as_compound(nbt) ==
    IF SlabGet(nbt.nodes, nbt.root_index).kind = "Compound"
    THEN Some([node_idx |-> nbt.root_index])
    ELSE None

NewTree ==
    LET t == new
    IN  /\ root_name' = t.root_name
        /\ root_index' = t.root_index
        /\ nodes' = t.nodes
        /\ call' = [op |-> "NBT::new", name |-> <<>>, as_compound |-> as_compound(t)]
        /\ UNCHANGED <<compound, inserted, views, other, launcherVars>>

NewNamedTree ==
    \E name \in RootNames :
        LET t == new_named(name)
        IN  /\ root_name' = t.root_name
            /\ root_index' = t.root_index
            /\ nodes' = t.nodes
            /\ call' = [op |-> "NBT::new_named", name |-> name,
                        as_compound |-> as_compound(t)]
            /\ UNCHANGED <<compound, inserted, views, other, launcherVars>>

NextNew ==
    \/ InsertNode
    \/ ListInsertNode
    \/ CompoundRemove
    \/ NewTree
    \/ NewNamedTree

SpecNew == Init /\ [][NextNew]_vars

\* C18: a tree just made by new or new_named has one node in its arena, the
\* root, a compound without entries; as_compound gives a view of it; the
\* root name is the name given, the empty string for new.
C18_NewTree ==
    call.op \in {"NBT::new", "NBT::new_named"} =>
        /\ nodes.len = 1
        /\ SlabKeys(nodes) = {root_index}
        /\ SlabGet(nodes, root_index) = NodeCompound(<<>>)
        /\ call.as_compound = Some([node_idx |-> root_index])
        /\ root_name = call.name
        /\ call.op = "NBT::new" => root_name = <<>>

\* new_named("r") has made a tree.
C18_Witness ==
    /\ call.op = "NBT::new_named"
    /\ call.name = <<114>>
    /\ root_name = <<114>>
    /\ nodes.len = 1

(***************************************************************************)
(* The typed finds by key: the macro find instantiated for each basic type *)
(* by enumerate_basic_types.                                               *)
(***************************************************************************)
\* The most occupied arena slots of a tree of SpecFind.
FindMaxNodes == 2

\* enumerate_basic_types: the method name's part and the NBTNode variant.
enumerate_basic_types ==
    { <<"byte", "Byte">>, <<"short", "Short">>, <<"int", "Int">>, <<"long", "Long">>,
      <<"float", "Float">>, <<"double", "Double">>, <<"byte_array", "ByteArray">>,
      <<"string", "String">>, <<"int_array", "IntArray">>, <<"long_array", "LongArray">> }

\* find_idx(key) on the compound view at node_idx.
find_idx(slab, node_idx, key) == NBTCompound_find(SlabGet(slab, node_idx).entries, key)

\* get_node(idx)
get_node(slab, idx) == SlabGet(slab, idx)

\* The macro find with the arm matching every variant that has a payload.
find_AnyVariant(slab, node_idx, key, variant) ==
    LET idx == find_idx(slab, node_idx, key)
    IN  IF ~idx.some THEN None
        ELSE IF get_node(slab, idx.value).kind \in {"List", "Compound"} THEN None
        ELSE Some(get_node(slab, idx.value).value)

\* The macro find for the NBTNode variant $node: find_<name>(key).
find(slab, node_idx, key, variant) ==
    LET idx == find_idx(slab, node_idx, key)
    IN  IF ~idx.some THEN None
        ELSE IF get_node(slab, idx.value).kind = variant
        THEN Some(get_node(slab, idx.value).value)
        ELSE None

FindNodes == ScalarNodes \cup ContainerNodes

FindInsertNode == InsertNodeOf(FindMaxNodes, CodecKeys, FindNodes)

\* find_byte(key), find_short(key), ... on the compound view at node_idx.
TypedFind ==
    \E node_idx \in KindHandles(nodes, root_index, "Compound"),
       key \in CodecKeys, type \in enumerate_basic_types :
        /\ call' = [op |-> "find_" \o type[1], variant |-> type[2],
                    node_idx |-> node_idx, key |-> key,
                    result |-> find(nodes, node_idx, key, type[2])]
        /\ UNCHANGED callFrame

NextFind ==
    \/ FindInsertNode
    \/ TypedFind

SpecFind == Init /\ [][NextFind]_vars

FindOps == {"find_" \o type[1] : type \in enumerate_basic_types}

\* What a typed find has to give: the payload when an entry of the compound
\* has the key and its node is of the variant, None otherwise.
ExpectedFind(slab, node_idx, key, variant) ==
    LET held == {i \in 1..Len(SlabGet(slab, node_idx).entries) :
                    SlabGet(slab, node_idx).entries[i][1] = key}
    IN  IF held = {} THEN None
        ELSE LET node == SlabGet(slab, SlabGet(slab, node_idx).entries[CHOOSE i \in held : TRUE][2])
             IN  IF node.kind = variant THEN Some(node.value) ELSE None

\* C19: for each of the ten basic types the typed find by key gives the
\* payload exactly when the key is held and its node is of that type, and
\* None when the key is not held and when its node is of another kind; for
\* the same compound and key the ten finds differ only in the variant they
\* accept: at most one of them gives a payload.
C19_UniformTypedLookup ==
    /\ call.op \in FindOps =>
           call.result = ExpectedFind(nodes, call.node_idx, call.key, call.variant)
    /\ \A node_idx \in KindHandles(nodes, root_index, "Compound"), key \in CodecKeys :
           /\ \A type \in enumerate_basic_types :
                  find(nodes, node_idx, key, type[2])
                      = ExpectedFind(nodes, node_idx, key, type[2])
           /\ Cardinality({type \in enumerate_basic_types :
                              find(nodes, node_idx, key, type[2]).some}) <= 1

\* find_int was called with a key that holds a short.
C19_Witness ==
    /\ call.op = "find_int"
    /\ call.result = None
    /\ find_idx(nodes, call.node_idx, call.key).some
    /\ get_node(nodes, find_idx(nodes, call.node_idx, call.key).value).kind = "Short"

(***************************************************************************)
(* The wire tags of the nodes stored in the trees of SpecCodec.            *)
(***************************************************************************)
\* The one-byte wire tag of each kind of node.
WireTags ==
    [Byte |-> 1, Short |-> 2, Int |-> 3, Long |-> 4, Float |-> 5, Double |-> 6,
     ByteArray |-> 7, String |-> 8, List |-> 9, Compound |-> 10,
     IntArray |-> 11, LongArray |-> 12]

\* C20: get_type gives every node stored in the arena the tag of its kind,
\* a tag of 1..12 and never the end tag 0, and gives nodes of different
\* kinds different tags.
C20_WireTagAssignment ==
    /\ TAG_END_ID = 0
    /\ \A k \in SlabKeys(nodes) :
           /\ get_type(SlabGet(nodes, k)) = WireTags[SlabGet(nodes, k).kind]
           /\ get_type(SlabGet(nodes, k)) \in 1..12
           /\ get_type(SlabGet(nodes, k)) # TAG_END_ID
    /\ \A a, b \in CodecNodes : a.kind # b.kind => get_type(a) # get_type(b)
    /\ {get_type(n) : n \in CodecNodes} = 1..12

\* A tree storing an int array and a long array has been encoded, its first
\* byte the tag of the root.
C20_Witness ==
    /\ call.op = "encode"
    /\ call.bytes[1] = get_type(SlabGet(nodes, root_index))
    /\ \E j, k \in SlabKeys(nodes) :
           /\ SlabGet(nodes, j).kind = "IntArray"
           /\ SlabGet(nodes, k).kind = "LongArray"

(***************************************************************************)
(* The calls of remove_node: which handles one call, with the calls it     *)
(* makes on the children, passes to Slab::remove, in order.                *)
(***************************************************************************)
RECURSIVE remove_node_visits(_, _, _)
RECURSIVE VisitChildren(_, _, _, _)
\* The loop over the children going back to the first child at its end.
VisitChildren_Again(slab, children, i, visited) ==
    IF i > Len(children)
    THEN IF children = <<>>
         THEN [nodes |-> slab, panic |-> FALSE, visited |-> visited]
         ELSE remove_node_visits(slab, children[1], visited)
    ELSE LET r == remove_node_visits(slab, children[i], visited)
         IN  IF r.panic THEN r ELSE VisitChildren(r.nodes, children, i + 1, r.visited)

\* for child in children { self.remove_node(child) }
VisitChildren(slab, children, i, visited) ==
    IF i > Len(children)
    THEN [nodes |-> slab, panic |-> FALSE, visited |-> visited]
    ELSE LET r == remove_node_visits(slab, children[i], visited)
         IN  IF r.panic THEN r ELSE VisitChildren(r.nodes, children, i + 1, r.visited)

\* remove_node(idx) after the handles of visited: the root check, then
\* Slab::remove(idx), which panics on a key that is not occupied, then the
\* children of the node taken out.
remove_node_visits(slab, idx, visited) ==
    IF idx = 0 THEN [nodes |-> slab, panic |-> TRUE, visited |-> visited]
    ELSE IF ~SlabContains(slab, idx)
    THEN [nodes |-> slab, panic |-> TRUE, visited |-> Append(visited, idx)]
    ELSE VisitChildren(SlabRemove(slab, idx), ChildSeq(SlabGet(slab, idx)), 1,
                       Append(visited, idx))

\* CompoundRefMut::remove(key) of a key the compound holds.
VisitingCompoundRemove ==
    \E node_idx \in KindHandles(nodes, root_index, "Compound"), key \in Keys :
        LET self == SlabGet(nodes, node_idx)
            removed == NBTCompound_remove(self.entries, key)
            unlinked == SlabSet(nodes, node_idx, NodeCompound(removed.entries))
            r == remove_node_visits(unlinked, removed.result.value, <<>>)
        IN  /\ removed.result.some
            /\ nodes' = r.nodes
            /\ call' = [op |-> "remove_node", idx |-> removed.result.value,
                        before |-> unlinked, visited |-> r.visited, panic |-> r.panic]
            /\ UNCHANGED nodesFrame

\* ListRefMut::remove(index)
VisitingListRemove ==
    \E node_idx \in KindHandles(nodes, root_index, "List") :
        \E index \in 0..(Len(SlabGet(nodes, node_idx).children) - 1) :
            LET self == SlabGet(nodes, node_idx)
                unlinked == SlabSet(nodes, node_idx,
                                    NodeList(self.type_id, VecRemove(self.children, index)))
                r == remove_node_visits(unlinked, self.children[index + 1], <<>>)
            IN  /\ nodes' = r.nodes
                /\ call' = [op |-> "remove_node", idx |-> self.children[index + 1],
                            before |-> unlinked, visited |-> r.visited, panic |-> r.panic]
                /\ UNCHANGED nodesFrame

NextRemoval ==
    \/ InsertNode
    \/ ListInsertNode
    \/ VisitingCompoundRemove
    \/ VisitingListRemove

SpecRemoval == Init /\ [][NextRemoval]_vars

\* C21: remove_node on a handle other than the root returns, having passed
\* to Slab::remove each node of the handle's subtree once and no handle
\* twice; and in every reachable tree the same is true of a call on any
\* handle but the root.
C21_RemovalTerminates ==
    /\ call.op = "remove_node" =>
           /\ ~call.panic
           /\ \A i, j \in 1..Len(call.visited) :
                  call.visited[i] = call.visited[j] => i = j
           /\ {call.visited[i] : i \in 1..Len(call.visited)}
                 = Subtree(call.before, call.idx)
           /\ nodes = remove_node(call.before, call.idx).nodes
    /\ \A h \in SlabKeys(nodes) \ {root_index} :
           LET r == remove_node_visits(nodes, h, <<>>)
           IN  /\ ~r.panic
               /\ Len(r.visited) = Cardinality(Subtree(nodes, h))
               /\ {r.visited[i] : i \in 1..Len(r.visited)} = Subtree(nodes, h)

\* A container and its child have been removed by one call.
C21_Witness ==
    /\ call.op = "remove_node"
    /\ ~call.panic
    /\ Len(call.visited) = 2
    /\ nodes.len = 1


(***************************************************************************)
(* The update installer (crates/backend/src/update.rs).  install_update    *)
(* downloads the release named by an UpdatePrompt, checks its SHA-1 and    *)
(* its minisign signature and installs it by install type.  The task's     *)
(* place is task.pc; what the network, the file system and the elevated    *)
(* commands answer is chosen step by step, except the answers of the four  *)
(* file-system calls of install_app_update, which are fixed when the task  *)
(* starts (task.fs) so that a statement can speak of a call that the code  *)
(* does not reach.                                                         *)
(***************************************************************************)
\* The number of chunks the download stream yields before it ends.
ChunkCount == 2

\* What a download URL can serve: the release that was signed, or other bytes.
Contents == {"release", "other"}

\* Sha1::finalize of the downloaded bytes (update.rs 188-190).
Sha1(content) == [sha1_of |-> content]

\* UpdateExecutable::sha1: the hex form of a digest, or text that is no hex.
Sha1Fields == {[hex |-> TRUE, digest |-> Sha1(c)] : c \in Contents}
                  \cup {[hex |-> FALSE, digest |-> Sha1("other")]}

\* hex::decode_to_slice (update.rs 158).
hex_decode_to_slice(field) == IF field.hex THEN Some(field.digest) ELSE None

\* UpdateExecutable::sig: a minisign signature of some content in base64,
\* a signature with an algorithm the verifier rejects, or a field that is
\* no base64, no UTF-8 under the base64, or no minisign signature.
SigFields == {"signs_release", "signs_other", "unsupported",
              "not_base64", "not_utf8", "not_minisign"}

\* The compile-time PANDORA_UPDATE_PUBKEY (update.rs 196).
PubKeys == {"unset", "minisign", "malformed"}

\* base64 decode, from_utf8 and Signature::decode all succeed (update.rs 201, 204).
SignatureDecodes(sig) == sig \in {"signs_release", "signs_other", "unsupported"}

\* base64 decode, from_utf8 and PublicKey::decode all succeed (update.rs 200, 203).
PublicKeyDecodes(pubkey) == pubkey = "minisign"

\* PublicKey::verify (update.rs 206-214).
pk_verify(content, sig) ==
    CASE sig = "unsupported" -> "Error"
      [] sig = "signs_release" /\ content = "release" -> "Ok"
      [] sig = "signs_other" /\ content = "other" -> "Ok"
      [] OTHER -> "InvalidSignature"

InstallTypes == {"AppImage", "Executable", "App"}

\* The answers of the file-system calls of install_app_update.
AppFsOutcomes == [unpack : {"Ok", "Err"},
                  find : {"Some", "None", "Err"},
                  rename_backup : {"Ok", "PermissionDenied", "Err"},
                  rename_install : {"Ok", "Err"}]

\* For the install types that do not call install_app_update.
NoAppFs == [unpack |-> "Ok", find |-> "Some", rename_backup |-> "Ok", rename_install |-> "Ok"]

UpdatePrompts == [sha1 : Sha1Fields, sig : SigFields, install_type : InstallTypes]

TaskOk == [ok |-> TRUE, error |-> ""]
TaskErr(message) == [ok |-> FALSE, error |-> message]

\* The installed program and the installer's temporary files.
InitDisk == [current |-> "old", backup |-> "none", extract |-> "none", new_exe_data |-> "none"]

\* install_update_inner returns (it is awaited at update.rs 144).
Return(result) == task' = [task EXCEPT !.pc = "returned", !.result = result]

installFrame == <<nbtVars, replace, serial, poll>>

\* install_update is spawned (update.rs 143): install_update_inner starts
\* and pushes its tracker (153-155).
install_update(update, pubkey, fs) ==
    /\ task.pc = "idle"
    /\ task' = [pc |-> "decode_sha1", update |-> update, pubkey |-> pubkey, fs |-> fs,
                served |-> "other", bytes |-> 0, complete |-> FALSE, hash_ok |-> FALSE,
                verified |-> FALSE, installing |-> FALSE, needs_authorization |-> FALSE,
                app_result |-> TaskOk, result |-> TaskOk]
    /\ disk' = InitDisk
    /\ UNCHANGED <<modal_action, frontend, installFrame>>

\* update.rs 157-160
DecodeSha1 ==
    /\ task.pc = "decode_sha1"
    /\ IF hex_decode_to_slice(task.update.sha1) = None
       THEN Return(TaskErr("Unable to decode sha1 hash"))
       ELSE task' = [task EXCEPT !.pc = "request"]
    /\ UNCHANGED <<disk, modal_action, frontend, installFrame>>

\* update.rs 162-171
SendRequest(outcome, served) ==
    /\ task.pc = "request"
    /\ CASE outcome = "Err" -> Return(TaskErr("Error making download request"))
         [] outcome = "Not200" -> Return(TaskErr("Download URL returned non-200 status code"))
         [] OTHER -> task' = [task EXCEPT !.pc = "stream", !.served = served]
    /\ UNCHANGED <<disk, modal_action, frontend, installFrame>>

\* update.rs 178-186: one stream.next().await
StreamNext(item) ==
    /\ task.pc = "stream"
    /\ CASE item = "Err" -> Return(TaskErr("Error while downloading update"))
         [] item = "Chunk" -> /\ task.bytes < ChunkCount
                              /\ task' = [task EXCEPT !.bytes = @ + 1]
         [] OTHER -> /\ task.bytes = ChunkCount
                     /\ task' = [task EXCEPT !.pc = "hash", !.complete = TRUE]
    /\ UNCHANGED <<disk, modal_action, frontend, installFrame>>

\* update.rs 188-194
CheckHash ==
    /\ task.pc = "hash"
    /\ IF hex_decode_to_slice(task.update.sha1).value # Sha1(task.served)
       THEN Return(TaskErr("Hash of downloaded file does not match"))
       ELSE task' = [task EXCEPT !.pc = "pubkey", !.hash_ok = TRUE]
    /\ UNCHANGED <<disk, modal_action, frontend, installFrame>>

\* update.rs 196-198
LoadPubkey ==
    /\ task.pc = "pubkey"
    /\ IF task.pubkey = "unset"
       THEN Return(TaskErr("Unable to update, missing PANDORA_UPDATE_PUBKEY at compile time"))
       ELSE task' = [task EXCEPT !.pc = "decode_keys"]
    /\ UNCHANGED <<disk, modal_action, frontend, installFrame>>

\* update.rs 200-204: four decodes, each unwrapped; a failed one panics and
\* the task ends there.
DecodeKeys ==
    /\ task.pc = "decode_keys"
    /\ IF PublicKeyDecodes(task.pubkey) /\ SignatureDecodes(task.update.sig)
       THEN task' = [task EXCEPT !.pc = "verify"]
       ELSE task' = [task EXCEPT !.pc = "panicked"]
    /\ UNCHANGED <<disk, modal_action, frontend, installFrame>>

\* update.rs 206-214
Verify ==
    /\ task.pc = "verify"
    /\ LET verdict == pk_verify(task.served, task.update.sig)
       IN  CASE verdict = "InvalidSignature" ->
                    Return(TaskErr("Invalid signature, file was not properly signed"))
             [] verdict = "Error" -> Return(TaskErr("Error while validating signature"))
             [] OTHER -> task' = [task EXCEPT !.pc = "install", !.verified = TRUE]
    /\ UNCHANGED <<disk, modal_action, frontend, installFrame>>

\* update.rs 216-240: the AppImage and Executable arms find the file name
\* (appimage.file_name, current_exe) and call write_new_exe; the App arm
\* is InstallAppUnpack.
ResolveExePath(found) ==
    /\ task.pc = "install"
    /\ task.update.install_type \in {"AppImage", "Executable"}
    /\ IF found
       THEN task' = [task EXCEPT !.pc = "write_new_exe", !.installing = TRUE]
       ELSE Return(TaskErr("path has no filename"))
    /\ UNCHANGED <<disk, modal_action, frontend, installFrame>>

\* write_new_exe, update.rs 270-280
WriteNewExeData(written) ==
    /\ task.pc = "write_new_exe"
    /\ IF written
       THEN /\ disk' = [disk EXCEPT !.new_exe_data = "written"]
            /\ task' = [task EXCEPT !.pc = "move_new_exe_into"]
       ELSE /\ Return(TaskErr("Error while writing new executable, see logs for more details"))
            /\ UNCHANGED disk
    /\ UNCHANGED <<modal_action, frontend, installFrame>>

\* move_new_exe_into (update.rs 289-375) and the rest of write_new_exe
\* (282-286), then install_update_inner's `?` (225, 239).
MoveNewExeInto(rename, os, elevated) ==
    /\ task.pc = "move_new_exe_into"
    /\ LET installed == rename = "Ok"
                        \/ (rename = "PermissionDenied" /\ os # "linux" /\ elevated)
       IN  IF installed
           THEN /\ disk' = [disk EXCEPT !.current = "new", !.new_exe_data = "none"]
                /\ task' = [task EXCEPT !.pc = "send_success"]
           ELSE /\ disk' = [disk EXCEPT !.new_exe_data = "none"]
                /\ Return(TaskErr(
                       CASE rename = "Err" -> "Error while updating executable file"
                         [] os = "linux" -> "Unable to update executable file: permission denied"
                         [] OTHER -> "Error completing elevated executable installation, see logs for more details"))
    /\ UNCHANGED <<modal_action, frontend, installFrame>>

\* install_app_update returns to update.rs 254.
ReturnApp(result) == task' = [task EXCEPT !.pc = "app_cleanup", !.app_result = result]

\* update.rs 241-254, then install_app_update 378-384: archive.unpack
InstallAppUnpack ==
    /\ task.pc = "install"
    /\ task.update.install_type = "App"
    /\ IF task.fs.unpack = "Err"
       THEN /\ task' = [task EXCEPT !.pc = "app_cleanup", !.installing = TRUE,
                              !.app_result = TaskErr("Error while unpacking .app.tar.gz archive, see logs for more details")]
            /\ UNCHANGED disk
       ELSE /\ task' = [task EXCEPT !.pc = "find_app", !.installing = TRUE]
            /\ disk' = [disk EXCEPT !.extract = IF task.fs.find = "None" THEN "no_app" ELSE "app"]
    /\ UNCHANGED <<modal_action, frontend, installFrame>>

\* install_app_update, update.rs 386-395: find_child_with_extension
FindApp ==
    /\ task.pc = "find_app"
    /\ CASE task.fs.find = "None" -> ReturnApp(TaskErr("Unable to find .app folder in extracted archive"))
         [] task.fs.find = "Err" -> ReturnApp(TaskErr("I/O error while finding .app folder, see logs for more details"))
         [] OTHER -> task' = [task EXCEPT !.pc = "backup"]
    /\ UNCHANGED <<disk, modal_action, frontend, installFrame>>

\* install_app_update, update.rs 397-409: rename the current .app to the
\* temp backup, then test temp_backup.exists() whatever the rename answered.
BackupRename ==
    /\ task.pc = "backup"
    /\ LET answer == task.fs.rename_backup
           renamed == IF answer = "Ok"
                      THEN [disk EXCEPT !.current = "none", !.backup = disk.current]
                      ELSE disk
       IN  /\ disk' = renamed
           /\ CASE answer = "Err" ->
                       ReturnApp(TaskErr("I/O error while backing up current .app, see logs for more details"))
                [] renamed.backup # "none" ->
                       ReturnApp(TaskErr("Rename from current .app to temp backup errored, but then succeeded"))
                [] OTHER -> task' = [task EXCEPT !.pc = "swap",
                                           !.needs_authorization = (answer = "PermissionDenied")]
    /\ UNCHANGED <<modal_action, frontend, installFrame>>

\* install_app_update, update.rs 411-460.  With needs_authorization the two
\* moves run in one elevated command, which succeeds, is refused, or fails
\* at its first or second mv; a failed command is followed by an elevated
\* move back whose status is dropped (439-448).  Without it the extracted
\* .app is renamed to the current path, and a failed rename is followed by
\* a rename back whose result is dropped (453-457).
Swap(elevated, restored) ==
    /\ task.pc = "swap"
    /\ IF task.needs_authorization
       THEN CASE elevated = "Ok" ->
                     /\ disk' = [disk EXCEPT !.backup = disk.current, !.current = "new",
                                             !.extract = "emptied"]
                     /\ ReturnApp(TaskOk)
              [] elevated = "SecondMvFailed" ->
                     /\ disk' = IF restored THEN disk
                                ELSE [disk EXCEPT !.backup = disk.current, !.current = "none"]
                     /\ ReturnApp(TaskErr("Error completing elevated .app installation, see logs for more details"))
              [] OTHER ->
                     /\ UNCHANGED disk
                     /\ ReturnApp(TaskErr("Error completing elevated .app installation, see logs for more details"))
       ELSE IF task.fs.rename_install = "Ok"
            THEN /\ disk' = [disk EXCEPT !.current = "new", !.extract = "emptied"]
                 /\ ReturnApp(TaskOk)
            ELSE /\ disk' = IF restored
                            THEN [disk EXCEPT !.current = disk.backup, !.backup = "none"]
                            ELSE disk
                 /\ ReturnApp(TaskErr("Error completing elevated .app installation, see logs for more details"))
    /\ UNCHANGED <<modal_action, frontend, installFrame>>

\* update.rs 256-262: both temp folders are removed, results dropped, and
\* the error of install_app_update is passed on.
AppCleanup(backup_removed, extract_removed) ==
    /\ task.pc = "app_cleanup"
    /\ disk' = [disk EXCEPT !.backup = IF backup_removed THEN "none" ELSE @,
                            !.extract = IF extract_removed THEN "none" ELSE @]
    /\ IF task.app_result.ok
       THEN task' = [task EXCEPT !.pc = "send_success"]
       ELSE Return(task.app_result)
    /\ UNCHANGED <<modal_action, frontend, installFrame>>

\* update.rs 265-267
SendSuccess ==
    /\ task.pc = "send_success"
    /\ frontend' = Append(frontend, [type |-> "Success"])
    /\ Return(TaskOk)
    /\ UNCHANGED <<disk, modal_action, installFrame>>

\* install_update, update.rs 144-149, once install_update_inner has returned:
\* set_error_message on Err, then set_finished, then the Refresh.
FinishInstall ==
    /\ task.pc = "returned"
    /\ modal_action' = [modal_action EXCEPT
                            !.error = IF task.result.ok THEN @ ELSE Some(task.result.error),
                            !.finished = TRUE]
    /\ frontend' = Append(frontend, [type |-> "Refresh"])
    /\ task' = [task EXCEPT !.pc = "done"]
    /\ UNCHANGED <<disk, installFrame>>

NextInstall ==
    \/ \E update \in UpdatePrompts, pubkey \in PubKeys :
           \E fs \in IF update.install_type = "App" THEN AppFsOutcomes ELSE {NoAppFs} :
               install_update(update, pubkey, fs)
    \/ DecodeSha1
    \/ \E outcome \in {"Err", "Not200", "Ok"}, served \in Contents :
           SendRequest(outcome, IF outcome = "Ok" THEN served ELSE "other")
    \/ \E item \in {"Chunk", "Err", "End"} : StreamNext(item)
    \/ CheckHash
    \/ LoadPubkey
    \/ DecodeKeys
    \/ Verify
    \/ \E found \in BOOLEAN : ResolveExePath(found)
    \/ \E written \in BOOLEAN : WriteNewExeData(written)
    \/ \E rename \in {"Ok", "PermissionDenied", "Err"}, os \in {"linux", "macos", "windows"},
          elevated \in BOOLEAN : MoveNewExeInto(rename, os, elevated)
    \/ InstallAppUnpack
    \/ FindApp
    \/ BackupRename
    \/ \E elevated \in {"Ok", "Refused", "FirstMvFailed", "SecondMvFailed"}, restored \in BOOLEAN :
           Swap(elevated, restored)
    \/ \E backup_removed, extract_removed \in BOOLEAN : AppCleanup(backup_removed, extract_removed)
    \/ SendSuccess
    \/ FinishInstall

SpecInstall == Init /\ [][NextInstall]_vars

\* The task has ended: install_update ran to its end, or it panicked.
InstallEnded == task.pc \in {"done", "panicked"}

\* install_update_inner has come back with a result.
InstallReturned == task.pc \in {"returned", "done"}

\* C22: verify before install.  write_new_exe and install_app_update are
\* called, and the installed program or a temp file of the installer is
\* changed, only after the whole download came in, its SHA-1 equalled the
\* manifest's and the signature verified; and every run in which the
\* download, the hash or the signature failed has install_update_inner
\* return an error, the installed program untouched.
C22_VerifyBeforeInstall ==
    task.pc # "idle" =>
        /\ (task.installing \/ disk # InitDisk)
               => (task.complete /\ task.hash_ok /\ task.verified)
        /\ (task.pc \in {"returned", "done", "panicked"} /\ ~task.verified)
               => (InstallReturned /\ ~task.result.ok /\ disk.current = "old")

\* C23: a failed .app update keeps the installed app.  Whenever the App
\* installation has reported an error (install_app_update returned Err and
\* the temp folders were cleaned up), the installed .app is at its path.
C23_FailedAppUpdateKeepsApp ==
    (InstallReturned /\ task.update.install_type = "App" /\ task.installing
        /\ ~task.result.ok)
        => disk.current = "old"

\* C24: a .app update without elevation succeeds.  When the archive
\* unpacks, holds a .app folder, the rename of the current .app to the temp
\* backup succeeds and the rename of the extracted .app to the current path
\* succeeds, install_app_update returns Ok with the new .app at the
\* current path.
C24_AppUpdateWithoutElevation ==
    (task.pc = "app_cleanup"
        /\ task.fs = [unpack |-> "Ok", find |-> "Some", rename_backup |-> "Ok",
                      rename_install |-> "Ok"])
        => (task.app_result.ok /\ disk.current = "new")

\* The number of Refresh messages the frontend was sent.
RefreshCount == Cardinality({i \in 1..Len(frontend) : frontend[i].type = "Refresh"})

\* C25: install_update always completes the modal action.  Whatever the
\* prompt's fields hold and whatever download, hash check, signature
\* decoding and installation answer, a task that has ended has called
\* set_finished, has sent exactly one Refresh, and has set the error message
\* exactly when the installation failed.
C25_InstallCompletesModalAction ==
    InstallEnded =>
        /\ modal_action.finished
        /\ RefreshCount = 1
        /\ frontend[Len(frontend)].type = "Refresh"
        /\ (modal_action.error # None) <=> ~task.result.ok

(***************************************************************************)
(* The update check (update.rs 12-105).  A version is the sequence of      *)
(* parts that schema::forge::VersionFragment::string_to_parts gives for    *)
(* its string; parts are compared as Rust compares vectors, first          *)
(* difference first and a proper prefix below its extensions.              *)
(***************************************************************************)
Versions == {<<1>>, <<1, 0>>, <<1, 1>>, <<2>>}

RECURSIVE VersionLess(_, _)
VersionLess(a, b) ==
    IF b = <<>> THEN FALSE
    ELSE IF a = <<>> THEN TRUE
    ELSE IF Head(a) # Head(b) THEN Head(a) < Head(b)
    ELSE VersionLess(Tail(a), Tail(b))

\* current_version >= update_version (update.rs 72)
VersionGe(a, b) == ~VersionLess(a, b)

\* std::env::consts::ARCH of the running build
NativeArch == "x86_64"
ArchNames == {"universal", NativeArch}

\* UpdateInstallType::key (pandora_update.rs 12-20)
key(install_type) ==
    CASE install_type = "AppImage" -> "appimage"
      [] install_type = "Executable" -> "executable"
      [] install_type = "App" -> "app"

InstallKeys == {key(t) : t \in InstallTypes}

\* An UpdateManifest: its version, the archs of its downloads map and, for
\* each arch, the install keys that have an executable entry.
Manifests == {m \in [version : Versions, archs : SUBSET ArchNames,
                     exes : SUBSET (ArchNames \X InstallKeys)] :
                 \A e \in m.exes : e[1] \in m.archs}

\* The UpdateManifestExe stored under an arch and a key.
ExeOf(manifest, arch, k) == [version |-> manifest.version, arch |-> arch, key |-> k]

\* update.rs 77-84: the "universal" entry if there is one, else the entry
\* of the native arch, else nothing.
select_exes_NativeFirst(manifest) ==
    IF NativeArch \in manifest.archs THEN Some(NativeArch)
    ELSE IF "universal" \in manifest.archs THEN Some("universal")
    ELSE None
select_exes(manifest) ==
    IF "universal" \in manifest.archs THEN Some("universal")
    ELSE IF NativeArch \in manifest.archs THEN Some(NativeArch)
    ELSE None

send_error(message) == frontend' = Append(frontend, [type |-> "Error", message |-> message])

\* check_for_updates up to its first await (update.rs 12-34).  The three
\* compile-time variables are set or not; release builds warn about a
\* missing one.
check_for_updates(pubkey, version, repository_url, release) ==
    /\ task.pc = "idle"
    /\ LET missing == IF version = None THEN "PANDORA_RELEASE_VERSION"
                      ELSE "GITHUB_REPOSITORY_URL"
           skipped == pubkey = None \/ version = None \/ repository_url = None
       IN  /\ task' = [pc |-> IF skipped THEN "checked" ELSE "manifest_request",
                       pubkey |-> pubkey, version |-> version, status |-> "none",
                       body |-> "none", manifest |-> None, install_type |-> None]
           /\ IF pubkey # None /\ skipped /\ release
              THEN frontend' = Append(frontend, [type |-> "Warning", message |-> missing])
              ELSE UNCHANGED frontend
    /\ UNCHANGED <<disk, modal_action, installFrame>>

\* update.rs 34-49: the answer to the manifest request
ManifestResponse(status) ==
    /\ task.pc = "manifest_request"
    /\ CASE status = "Err" ->
                /\ send_error("Unable to fetch Pandora update manifest, see logs for more details")
                /\ task' = [task EXCEPT !.pc = "checked", !.status = status]
         [] status = "Not200" ->
                /\ send_error("Unable to fetch Pandora update manifest, non-200 status code")
                /\ task' = [task EXCEPT !.pc = "checked", !.status = status]
         [] OTHER ->
                /\ UNCHANGED frontend
                /\ task' = [task EXCEPT !.pc = "manifest_bytes", !.status = status]
    /\ UNCHANGED <<disk, modal_action, installFrame>>

\* update.rs 51-105: the body arrives or not, parses or not, and the rest
\* of the function runs without an await.  install_type is what
\* determine_update_install_type answers (107-119).
ManifestBody(body, manifest, install_type) ==
    /\ task.pc = "manifest_bytes"
    /\ task' = [task EXCEPT !.pc = "checked", !.body = body,
                            !.manifest = IF body = "Json" THEN Some(manifest) ELSE None,
                            !.install_type = install_type]
    /\ CASE body = "Err" ->
                send_error("Unable to download Pandora update manifest, see logs for more details")
         [] body = "NotJson" ->
                send_error("Unable to parse update manifest, see logs for more details")
         [] OTHER ->
                LET exes == select_exes(manifest)
                IN  IF \/ VersionGe(task.version.value, manifest.version)
                       \/ exes = None
                       \/ install_type = None
                    THEN UNCHANGED frontend
                    ELSE IF <<exes.value, key(install_type.value)>> \notin manifest.exes
                    THEN UNCHANGED frontend
                    ELSE frontend' = Append(frontend,
                             [type |-> "UpdateAvailable",
                              old_version |-> task.version.value,
                              new_version |-> manifest.version,
                              install_type |-> install_type.value,
                              exe |-> ExeOf(manifest, exes.value, key(install_type.value))])
    /\ UNCHANGED <<disk, modal_action, installFrame>>

Options(S) == {None} \cup {Some(x) : x \in S}

NextCheck ==
    \/ \E pubkey \in Options({"minisign"}), version \in Options(Versions),
          repository_url \in Options({"url"}), release \in BOOLEAN :
           check_for_updates(pubkey, version, repository_url, release)
    \/ \E status \in {"Err", "Not200", "Ok"} : ManifestResponse(status)
    \/ \E body \in {"Err", "NotJson", "Json"}, manifest \in Manifests,
          install_type \in Options(InstallTypes) :
           ManifestBody(body, manifest, install_type)

SpecCheck == Init /\ [][NextCheck]_vars

\* The UpdateAvailable messages sent so far.
Offers == {i \in 1..Len(frontend) : frontend[i].type = "UpdateAvailable"}

\* C26: check_for_updates sends UpdateAvailable at most once, and only for
\* a manifest fetched with status 200 and parsed, whose version is strictly
\* greater than the current one, which has an executable for the detected
\* install type under "universal" if that arch is present and else under
\* the native arch; the offer names that executable and that version.
C26_UpdateOffer ==
    /\ Cardinality(Offers) <= 1
    /\ \A i \in Offers :
           LET offer == frontend[i]
               m == task.manifest.value
               arch == IF "universal" \in m.archs THEN "universal" ELSE NativeArch
           IN  /\ task.status = "Ok" /\ task.body = "Json" /\ task.manifest # None
               /\ VersionLess(task.version.value, m.version)
               /\ ~VersionLess(offer.new_version, offer.old_version)
               /\ offer.new_version # offer.old_version
               /\ task.install_type # None
               /\ arch \in m.archs
               /\ <<arch, key(task.install_type.value)>> \in m.exes
               /\ offer.exe = ExeOf(m, arch, key(task.install_type.value))
               /\ offer.new_version = m.version /\ offer.old_version = task.version.value

\* An offer made from the native arch's entry, no "universal" in the manifest.
C26_Witness ==
    /\ task.pc = "checked"
    /\ Offers # {}
    /\ \E i \in Offers : frontend[i].exe.arch = NativeArch /\ frontend[i].new_version = <<1, 1>>

(***************************************************************************)
(* Serial and AtomicSerialProvider (crates/bridge/src/serial.rs).  usize   *)
(* is UsizeBits wide; all arithmetic on it wraps.                          *)
(***************************************************************************)
UsizeBits == 4
UsizeRange == 2 ^ UsizeBits
UsizeMax == UsizeRange - 1
Usize == 0..UsizeMax

wrapping_add(a, b) == (a + b) % UsizeRange
abs_diff(a, b) == IF a < b THEN b - a ELSE a - b

\* usize::partial_cmp
UsizeCmp(a, b) == IF a < b THEN "Less" ELSE IF a = b THEN "Equal" ELSE "Greater"

\* PartialOrd for Serial (serial.rs 12-21); rhs is the code's `other`.
partial_cmp_Plain(self, rhs) == UsizeCmp(self, rhs)
partial_cmp(self, rhs) ==
    LET distance == abs_diff(self, rhs)
    IN  IF distance < UsizeMax \div 2
        THEN UsizeCmp(self, rhs)
        ELSE UsizeCmp(rhs, self)

serialFrame == <<nbtVars, task, disk, modal_action, frontend, replace, poll>>

\* A Serial with any value (serial.rs 3-4; AtomicSetSerial::get, 31-33).
NewSerial(s) ==
    /\ serial.pc = "idle"
    /\ serial' = [pc |-> "serial", start |-> s, value |-> s, increments |-> 0]
    /\ UNCHANGED serialFrame

\* Serial::increment (serial.rs 7-9)
increment ==
    /\ serial.pc = "serial"
    /\ serial.increments < UsizeMax
    /\ serial' = [serial EXCEPT !.value = wrapping_add(@, 1), !.increments = @ + 1]
    /\ UNCHANGED serialFrame

NextSerial ==
    \/ \E s \in Usize : NewSerial(s)
    \/ increment

SpecSerial == Init /\ [][NextSerial]_vars

\* C27: the Serial order survives wraparound.  One increment of any serial,
\* the maximum included, gives a serial that compares Greater than it and
\* it compares Less than that; so does any number k of increments with
\* 0 < k < usize::MAX / 2; partial_cmp is antisymmetric and answers Equal
\* exactly on equal values.
C27_SerialOrderWraps ==
    /\ serial.pc = "serial" =>
           /\ (serial.increments = 1 \/ (0 < serial.increments
                                          /\ serial.increments < UsizeMax \div 2))
                  => /\ partial_cmp(serial.value, serial.start) = "Greater"
                     /\ partial_cmp(serial.start, serial.value) = "Less"
           /\ (partial_cmp(serial.start, serial.value) = "Less")
                  <=> (partial_cmp(serial.value, serial.start) = "Greater")
           /\ (partial_cmp(serial.start, serial.value) = "Equal")
                  <=> (serial.start = serial.value)
    /\ \A a, b \in Usize :
           /\ ~(partial_cmp(a, b) = "Less" /\ partial_cmp(b, a) = "Less")
           /\ (partial_cmp(a, b) = "Less") <=> (partial_cmp(b, a) = "Greater")
           /\ (partial_cmp(a, b) = "Equal") <=> (a = b)

\* The maximum serial incremented past the wrap, twice.
C27_Witness ==
    /\ serial.pc = "serial"
    /\ serial.start = UsizeMax
    /\ serial.increments = 2
    /\ serial.value = 1

\* The threads that hold a clone of the provider, and the number of calls
\* of next() a run makes in total.
Threads == {1, 2}
MaxCalls == 9

\* AtomicSerialProvider::default (serial.rs 36-37): the counter starts at 0.
NewProvider ==
    /\ serial.pc = "idle"
    /\ serial' = [pc |-> "provider", counter |-> 0, calls |-> 0,
                  threads |-> [t \in Threads |->
                                  [pc |-> "idle", fetched |-> 0, received |-> <<>>]]]
    /\ UNCHANGED serialFrame

\* AtomicSerialProvider::next, the atomic fetch_add (serial.rs 41): the
\* thread takes the counter's value and the counter goes up by one.
FetchAdd_NotAtomic(t) ==
    /\ serial.pc = "provider"
    /\ serial.threads[t].pc = "idle"
    /\ serial.calls < MaxCalls /\ serial.calls < UsizeMax
    /\ serial' = [serial EXCEPT !.calls = @ + 1,
                                !.counter = IF t = 1 THEN wrapping_add(@, 1) ELSE @,
                                !.threads[t].pc = "fetched",
                                !.threads[t].fetched = serial.counter]
    /\ UNCHANGED serialFrame
FetchAdd(t) ==
    /\ serial.pc = "provider"
    /\ serial.threads[t].pc = "idle"
    /\ serial.calls < MaxCalls /\ serial.calls < UsizeMax
    /\ serial' = [serial EXCEPT !.calls = @ + 1,
                                !.counter = wrapping_add(@, 1),
                                !.threads[t].pc = "fetched",
                                !.threads[t].fetched = serial.counter]
    /\ UNCHANGED serialFrame

\* AtomicSerialProvider::next, the rest (serial.rs 41): one is added to the
\* fetched value and the Serial is returned to the thread.
ReturnSerial(t) ==
    /\ serial.pc = "provider"
    /\ serial.threads[t].pc = "fetched"
    /\ serial' = [serial EXCEPT !.threads[t].pc = "idle",
                                !.threads[t].received =
                                    Append(@, wrapping_add(serial.threads[t].fetched, 1))]
    /\ UNCHANGED serialFrame

NextProvider ==
    \/ NewProvider
    \/ \E t \in Threads : FetchAdd(t)
    \/ \E t \in Threads : ReturnSerial(t)

SpecProvider == Init /\ [][NextProvider]_vars

\* The serials thread t has received, in the order of its calls.
Received(t) == serial.threads[t].received

\* No two calls returned the same Serial and none returned Serial(0).
UniqueNonZero ==
    /\ \A t \in Threads : \A i \in 1..Len(Received(t)) :
           /\ Received(t)[i] # 0
           /\ \A j \in 1..Len(Received(t)) : i # j => Received(t)[i] # Received(t)[j]
    /\ \A t, u \in Threads : t # u =>
           \A i \in 1..Len(Received(t)), j \in 1..Len(Received(u)) :
               Received(t)[i] # Received(u)[j]

\* What thread t received is strictly increasing in Serial's order.
Increasing(t) ==
    \A i, j \in 1..Len(Received(t)) :
        i < j => partial_cmp(Received(t)[i], Received(t)[j]) = "Less"

\* C28 as stated: with fewer calls in total than the counter's range, no
\* two calls return the same Serial, none returns Serial(0), and each
\* thread's serials are strictly increasing in Serial's order.
C28_UniqueIncreasingSerials ==
    serial.pc = "provider" => (UniqueNonZero /\ \A t \in Threads : Increasing(t))

\* C28 amended: with fewer calls in total than the counter's range, no two
\* calls return the same Serial and none returns Serial(0); and while at
\* most usize::MAX / 2 calls have been made in total, each thread's serials
\* are strictly increasing in Serial's order.
C28_UniqueAndIncreasingWhileClose ==
    serial.pc = "provider" =>
        /\ UniqueNonZero
        /\ serial.calls <= UsizeMax \div 2 => \A t \in Threads : Increasing(t)

\* Both threads have received serials, out of turn, up to the bound of the
\* amended statement.
C28_Witness ==
    /\ serial.pc = "provider"
    /\ serial.calls = UsizeMax \div 2
    /\ Len(Received(1)) >= 2 /\ Len(Received(2)) >= 2
    /\ Received(1)[1] > Received(2)[1]
    /\ Len(Received(1)) + Len(Received(2)) = serial.calls

(***************************************************************************)
(* replace_os_str (update.rs 463-483), one loop iteration per step.  File  *)
(* names and version strings are sequences of bytes.                       *)
(***************************************************************************)
\* The bytes file names and version strings are made of.
NameBytes == {97, 98}
MaxInputLen == 3
MaxPatternLen == 2
\* The longest Vec the allocator gives new_encoded; a push past it aborts.
MaxOutputLen == 8

SeqsUpTo(S, n) == UNION {[1..k -> S] : k \in 0..n}

\* slice.starts_with(needle) on encoded[index..] (update.rs 472)
starts_with(encoded, index, needle) ==
    /\ index + Len(needle) <= Len(encoded)
    /\ \A i \in 1..Len(needle) : encoded[index + i] = needle[i]

replaceFrame == <<nbtVars, task, disk, modal_action, frontend, serial, poll>>

\* update.rs 463-470
replace_os_str(input, from, to) ==
    /\ replace.pc = "idle"
    /\ replace' = [pc |-> "loop", encoded |-> input, from_bytes |-> from, to_bytes |-> to,
                   new_encoded |-> <<>>, index |-> 0]
    /\ UNCHANGED replaceFrame

\* update.rs 471-479: one iteration of the while loop
LoopStep ==
    /\ replace.pc = "loop"
    /\ replace.index < Len(replace.encoded)
    /\ LET matched == starts_with(replace.encoded, replace.index, replace.from_bytes)
           grown == IF matched THEN replace.new_encoded \o replace.to_bytes
                    ELSE Append(replace.new_encoded, replace.encoded[replace.index + 1])
           moved == replace.index
                        + (IF matched THEN Len(replace.from_bytes) ELSE 1)
       IN  IF Len(grown) > MaxOutputLen
           THEN replace' = [replace EXCEPT !.pc = "aborted"]
           ELSE replace' = [replace EXCEPT !.new_encoded = grown, !.index = moved]
    /\ UNCHANGED replaceFrame

\* update.rs 471, 481-482: the loop ends and the bytes are returned
LoopExit ==
    /\ replace.pc = "loop"
    /\ replace.index >= Len(replace.encoded)
    /\ replace' = [replace EXCEPT !.pc = "done"]
    /\ UNCHANGED replaceFrame

NextReplace ==
    \/ \E input \in SeqsUpTo(NameBytes, MaxInputLen),
          from, to \in SeqsUpTo(NameBytes, MaxPatternLen) : replace_os_str(input, from, to)
    \/ LoopStep
    \/ LoopExit

\* A running call takes its next step.
SpecReplace == Init /\ [][NextReplace]_vars /\ WF_vars(NextReplace)

\* The input with each leftmost non-overlapping occurrence of from replaced
\* by to, the other bytes kept in order.
RECURSIVE Replaced(_, _, _)
Replaced(s, from, to) ==
    IF s = <<>> THEN <<>>
    ELSE IF from # <<>> /\ starts_with(s, 0, from)
    THEN to \o Replaced(SubSeq(s, Len(from) + 1, Len(s)), from, to)
    ELSE <<Head(s)>> \o Replaced(Tail(s), from, to)

\* C29: replace_os_str terminates for every file name and every pair of
\* strings from and to, and returns the input with each leftmost
\* non-overlapping occurrence of from replaced by to.
C29_ReplaceTerminates ==
    (replace.pc = "loop")
        ~> (/\ replace.pc = "done"
            /\ replace.new_encoded
                   = Replaced(replace.encoded, replace.from_bytes, replace.to_bytes))

(***************************************************************************)
(* run_modal_action (crates/pandora_launcher/src/main.rs 73-142) polls a   *)
(* ModalAction that the backend works on.  The action is the record of     *)
(* what the loop reads: the error message, whether a finish time is set,   *)
(* the visit URL, and the number of clones other than the loop's own       *)
(* (refcnt() is that number plus one).  The backend's writes interleave    *)
(* with the loop's reads.                                                  *)
(***************************************************************************)
MaxClones == 2
Urls == {"url1", "url2"}
ErrorMessages == {"failed"}

pollFrame == <<nbtVars, task, disk, frontend, replace, serial>>

\* ModalAction::refcnt
refcnt(action) == action.clones + 1

\* main.rs 43-49, 73-83: the action is made, one clone goes to the backend
\* and the loop starts with nothing opened.
run_modal_action ==
    /\ poll.pc = "idle"
    /\ modal_action' = [modal_action EXCEPT !.clones = 1]
    /\ poll' = [pc |-> "sleep", opened |-> {}, offered |-> <<>>, shown |-> None,
                began |-> [error |-> FALSE, finished |-> FALSE, alone |-> FALSE]]
    /\ UNCHANGED pollFrame

\* The backend, while it holds a clone: it sets the error message, sets the
\* finish time, sets the visit URL, clones the action or drops a clone.
BackendSetError(error) ==
    /\ poll.pc # "idle" /\ modal_action.clones >= 1
    /\ modal_action' = [modal_action EXCEPT !.error = Some(error)]
    /\ UNCHANGED <<poll, pollFrame>>

BackendSetFinished ==
    /\ poll.pc # "idle" /\ modal_action.clones >= 1
    /\ modal_action' = [modal_action EXCEPT !.finished = TRUE]
    /\ UNCHANGED <<poll, pollFrame>>

BackendSetVisitUrl(url) ==
    /\ poll.pc # "idle" /\ modal_action.clones >= 1
    /\ modal_action' = [modal_action EXCEPT !.visit_url = url]
    /\ UNCHANGED <<poll, pollFrame>>

BackendClone ==
    /\ poll.pc # "idle" /\ modal_action.clones >= 1
    /\ modal_action.clones < MaxClones
    /\ modal_action' = [modal_action EXCEPT !.clones = @ + 1]
    /\ UNCHANGED <<poll, pollFrame>>

BackendDrop ==
    /\ poll.pc # "idle" /\ modal_action.clones >= 1
    /\ modal_action' = [modal_action EXCEPT !.clones = @ - 1]
    /\ UNCHANGED <<poll, pollFrame>>

\* main.rs 85-86: the sleep ends and an iteration begins; what holds of the
\* action at that moment is kept in poll.began.
Wake ==
    /\ poll.pc = "sleep"
    /\ poll' = [poll EXCEPT !.pc = "check_error",
                            !.began = [error |-> modal_action.error # None,
                                       finished |-> modal_action.finished,
                                       alone |-> refcnt(modal_action) <= 1]]
    /\ UNCHANGED <<modal_action, pollFrame>>

\* main.rs 87-90
CheckError_Skip ==
    /\ poll.pc = "check_error"
    /\ poll' = [poll EXCEPT !.pc = "check_refcnt"]
    /\ UNCHANGED <<modal_action, pollFrame>>
CheckError ==
    /\ poll.pc = "check_error"
    /\ IF modal_action.error # None
       THEN poll' = [poll EXCEPT !.pc = "returned", !.shown = modal_action.error]
       ELSE poll' = [poll EXCEPT !.pc = "check_refcnt"]
    /\ UNCHANGED <<modal_action, pollFrame>>

\* main.rs 92-94
CheckRefcnt ==
    /\ poll.pc = "check_refcnt"
    /\ modal_action' = IF refcnt(modal_action) <= 1
                       THEN [modal_action EXCEPT !.finished = TRUE]
                       ELSE modal_action
    /\ poll' = [poll EXCEPT !.pc = "check_finished"]
    /\ UNCHANGED pollFrame

\* main.rs 96-98
CheckFinished ==
    /\ poll.pc = "check_finished"
    /\ poll' = [poll EXCEPT !.pc = IF modal_action.finished THEN "returned" ELSE "visit"]
    /\ UNCHANGED <<modal_action, pollFrame>>

\* main.rs 100-115: a URL not opened before is offered in a dialog; the
\* user opens it or declines, and declining ends the loop.
VisitUrl(open) ==
    /\ poll.pc = "visit"
    /\ IF modal_action.visit_url # None /\ modal_action.visit_url.value \notin poll.opened
       THEN poll' = [poll EXCEPT !.opened = @ \cup {modal_action.visit_url.value},
                                 !.offered = Append(@, modal_action.visit_url.value),
                                 !.pc = IF open THEN "trackers" ELSE "returned"]
       ELSE poll' = [poll EXCEPT !.pc = "trackers"]
    /\ UNCHANGED <<modal_action, pollFrame>>

\* main.rs 117-141: the progress bars are redrawn and the loop goes round.
Trackers ==
    /\ poll.pc = "trackers"
    /\ poll' = [poll EXCEPT !.pc = "sleep"]
    /\ UNCHANGED <<modal_action, pollFrame>>

NextPoll ==
    \/ run_modal_action
    \/ \E error \in ErrorMessages : BackendSetError(error)
    \/ BackendSetFinished
    \/ \E url \in Options(Urls) : BackendSetVisitUrl(url)
    \/ BackendClone
    \/ BackendDrop
    \/ Wake
    \/ CheckError
    \/ CheckRefcnt
    \/ CheckFinished
    \/ \E open \in BOOLEAN : VisitUrl(open)
    \/ Trackers

SpecPoll == Init /\ [][NextPoll]_vars

====
